---------------------------- MODULE Spec2Model ----------------------------
(***************************************************************************)
(* Model of the Kleinanzeiger core: the pydantic data models               *)
(* (src/src/vision/models.py), the CategoryMapper                          *)
(* (src/src/content/categories.py) and the ContentGenerator                *)
(* (src/src/content/generator.py).                                         *)
(*                                                                         *)
(* Conventions                                                             *)
(*   - A Python str is a sequence of characters; a character is a          *)
(*     one-character TLA+ string, or the token "U+XXXX" for a character    *)
(*     outside ASCII ("U+00F6" is o-umlaut, "U+0663" is ARABIC-INDIC DIGIT *)
(*     THREE, "U+2022" is the bullet).                                     *)
(*   - Optional[T] is None or Some(v).                                     *)
(*   - A Python dict is a sequence of [key, val] entries with distinct     *)
(*     keys, in insertion order (json.load keeps the order of the file).   *)
(*   - A float price is an integer number of euros.                        *)
(*   - A call either returns, Ok(v), or raises, Raise(e).                  *)
(*   - Each behaviour is one call: the initial state holds its arguments,  *)
(*     the action is the call.  SpecModels, SpecGenerator and SpecMapper   *)
(*     are the calls of one component each, Spec is all of them.           *)
(***************************************************************************)
EXTENDS Integers, Sequences, FiniteSets, TLC

VARIABLES
    adArgs,     \* keyword arguments of an AdContent(...) construction
    adResult,   \* its outcome: Ok(record) or Raise("ValidationError")
    piArgs,     \* keyword arguments of a ProductInfo(...) construction
    piResult,   \* its outcome: Ok(record) or Raise("ValidationError")
    genArgs,    \* arguments of a ContentGenerator.generate_ad_content call
    genResult,  \* its outcome: Ok(record) or Raise("ValidationError")
    titleArgs,  \* the ProductInfo of a ContentGenerator._generate_title call
    titleResult,\* its outcome: Ok(title)
    mapArgs,    \* loaded taxonomy and arguments of a CategoryMapper.map_category call
    mapResult,  \* its outcome: Ok(<<category, subcategory>>) or Raise("KeyError")
    enhArgs,    \* backend and ProductInfo of a ContentGenerator._enhance_description call
    enhRequests,\* number of requests the call has sent to its backend
    enhResponse,\* what the backend request came to, NoCall before it
    enhResult,  \* its outcome: Ok(description) or Raise(error)
    findArgs,   \* folder, max_images and failing conversions of a VisionAnalyzer._find_images call
    findFiles,  \* the files of the folder after the call, NoCall before it
    findResult, \* its outcome: Ok(paths) or Raise("ValueError")
    condArgs,   \* the answer handed to BLIP2VisionAnalyzer._normalize_condition
    condResult, \* its outcome: Ok(label)
    anArgs,     \* backend, folder, unreadable images and backend replies of an analyze_images call
    anPc,       \* where the call stands: "start", "found", "encoded" or "done"
    anPaths,    \* the image_paths of the call, NoCall before _find_images returned
    anCalls,    \* number of backend requests (model runs) the call has made
    anResult,   \* its outcome: Ok(ProductInfo) or Raise(error)
    caArgs,     \* arguments of a KleinanzeigenAutomator.create_ad call and what the user types at the prompt
    caPc,       \* where the call stands
    caLog,      \* the actions on the page so far, in order
    caUploads,  \* the file lists handed to set_input_files, one per call
    caResult,   \* its outcome: Ok(keep_browser_open) or Raise(error)
    runArgs, \* the command line, the configuration and the surroundings of a main_async run
    runPc, \* where the run stands
    runProductInfo, \* product_info
    runCategory, \* (category, subcategory)
    runAd, \* ad_content
    runFailed, \* the stage whose exception ended the pipeline
    runConnects, \* calls of browser_controller.connect()
    runCreateAdCalls, \* calls of automator.create_ad(...)
    brState, \* the BrowserController and the browser session of the user
    runExit, \* the exit status passed to sys.exit
    cgArgs, \* arguments of a ContentGenerator(backend, api_key, model) call
    cgResult \* its outcome: Ok(generator) or Raise(error)
\* A variable is NoCall while its call has not been made.

adVars == <<adArgs, adResult>>
piVars == <<piArgs, piResult>>
genVars == <<genArgs, genResult>>
titleVars == <<titleArgs, titleResult>>
mapVars == <<mapArgs, mapResult>>
enhVars == <<enhArgs, enhRequests, enhResponse, enhResult>>
findVars == <<findArgs, findFiles, findResult>>
condVars == <<condArgs, condResult>>
anVars == <<anArgs, anPc, anPaths, anCalls, anResult>>
caVars == <<caArgs, caPc, caLog, caUploads, caResult>>
runVars == <<runArgs, runPc, runProductInfo, runCategory, runAd, runFailed, runConnects, runCreateAdCalls, brState, runExit>>
cgVars == <<cgArgs, cgResult>>

vars == <<adVars, piVars, genVars, titleVars, mapVars, enhVars, findVars, condVars, anVars, caVars, runVars, cgVars>>

-----------------------------------------------------------------------------
(* Python values *)

None == [some |-> FALSE]
Some(v) == [some |-> TRUE, val |-> v]
Ok(v) == [ok |-> TRUE, val |-> v]
Raise(e) == [ok |-> FALSE, err |-> e]
NoCall == [called |-> FALSE]

\* bool(x) of an Optional[str] / Optional[float]: None, "" and 0.0 are falsy
TruthyStr(o) == o.some /\ o.val # <<>>
TruthyNum(o) == o.some /\ o.val # 0

\* all strings over an alphabet, of length 0..n
StringsUpTo(alphabet, n) == UNION {[1..k -> alphabet] : k \in 0..n}

\* c * n
Repeat(c, n) == [i \in 1..n |-> c]

-----------------------------------------------------------------------------
(* Characters *)

AsciiDigits == {"0", "1", "2", "3", "4", "5", "6", "7", "8", "9"}
\* characters outside ASCII with Unicode property Numeric_Type=Decimal/Digit:
\* ARABIC-INDIC DIGIT THREE, SUPERSCRIPT TWO
UnicodeDigits == {"U+0663", "U+00B2"}

UpperChars ==
    <<"A", "B", "C", "D", "E", "F", "G", "H", "I", "J", "K", "L", "M", "N",
      "O", "P", "Q", "R", "S", "T", "U", "V", "W", "X", "Y", "Z", "U+00D6">>
LowerChars ==
    <<"a", "b", "c", "d", "e", "f", "g", "h", "i", "j", "k", "l", "m", "n",
      "o", "p", "q", "r", "s", "t", "u", "v", "w", "x", "y", "z", "U+00F6">>

Whitespace == {" ", "\n", "\t"}

\* str.isdigit() on one character: true of every Unicode digit
CharIsDigit(c) == c \in AsciiDigits \cup UnicodeDigits

\* str.isdigit(): every character is a digit and there is at least one
IsDigit(s) == Len(s) > 0 /\ \A i \in 1..Len(s) : CharIsDigit(s[i])

\* str.lower() on one character
LowerChar(c) ==
    IF \E i \in 1..Len(UpperChars) : UpperChars[i] = c
    THEN LowerChars[CHOOSE i \in 1..Len(UpperChars) : UpperChars[i] = c]
    ELSE c

\* str.lower()
Lower(s) == [i \in 1..Len(s) |-> LowerChar(s[i])]

\* `sub in text` on str
Contains(text, sub) ==
    \E i \in 0..(Len(text) - Len(sub)) : SubSeq(text, i + 1, i + Len(sub)) = sub

\* text[:n]
Prefix(s, n) == SubSeq(s, 1, IF Len(s) < n THEN Len(s) ELSE n)

-----------------------------------------------------------------------------
(* src/src/vision/models.py *)

FieldTitleMaxLength == 65
ValidatorTitleMax == 65
PostalCodeLen == 5

\* a validate_price that lets only positive prices pass
ProductInfo_validate_price_positive(v) == ~(v # None /\ v.val <= 0)

\* ProductInfo.validate_price: raises iff the price is present and negative
ProductInfo_validate_price(v) == ~(v # None /\ v.val < 0)

\* ProductInfo(**kw): the price validator is the only constraint on a field;
\* the record holds the values as given.
ProductInfo(kw) ==
    IF ProductInfo_validate_price(kw.suggested_price)
    THEN Ok(kw)
    ELSE Raise("ValidationError")

\* Field(..., max_length=65) on title
AdContent_title_field(v) == Len(v) <= FieldTitleMaxLength

\* AdContent.validate_title_length: passes iff not len(v) > 65
AdContent_validate_title_length(v) == ~(Len(v) > ValidatorTitleMax)

\* Field(..., ge=0) on price
AdContent_price_field(v) == v >= 0

\* AdContent.validate_postal_code: passes iff not (not v.isdigit() or len(v) != 5)
AdContent_validate_postal_code(v) == ~(~IsDigit(v) \/ Len(v) # PostalCodeLen)

\* A constructor that cuts a too-long title down to the cap instead of
\* rejecting it.
AdContent_truncating_title(kw) ==
    IF /\ AdContent_price_field(kw.price)
       /\ AdContent_validate_postal_code(kw.postal_code)
    THEN Ok([kw EXCEPT !.title = Prefix(kw.title, FieldTitleMaxLength)])
    ELSE Raise("ValidationError")

\* AdContent(**kw): pydantic runs every field's constraints and validators and
\* raises ValidationError if any fails; otherwise the record holds the values
\* as given (category and shipping_type are plain str fields without
\* constraints).
AdContent(kw) ==
    IF /\ AdContent_title_field(kw.title)
       /\ AdContent_validate_title_length(kw.title)
       /\ AdContent_price_field(kw.price)
       /\ AdContent_validate_postal_code(kw.postal_code)
    THEN Ok(kw)
    ELSE Raise("ValidationError")

-----------------------------------------------------------------------------
(* src/src/vision/base.py *)

\* the characters of file names by code point: "." < "A".."Z" < "a".."z"
CodeOrder == <<".">> \o SubSeq(UpperChars, 1, 26) \o SubSeq(LowerChars, 1, 26)
Ord(c) == CHOOSE i \in 1..Len(CodeOrder) : CodeOrder[i] = c

\* a < b on str
RECURSIVE StrLess(_, _)
StrLess(a, b) ==
    IF Len(b) = 0 THEN FALSE
    ELSE IF Len(a) = 0 THEN TRUE
    ELSE IF a[1] # b[1] THEN Ord(a[1]) < Ord(b[1])
    ELSE StrLess(Tail(a), Tail(b))

\* sorted(names): the paths of one directory compare as their names
RECURSIVE Sorted(_)
Sorted(names) ==
    IF names = {} THEN <<>>
    ELSE LET least == CHOOSE x \in names : \A y \in names \ {x} : StrLess(x, y)
         IN  <<least>> \o Sorted(names \ {least})

\* Path.suffix: from the last dot of the name, "" without one
PathSuffix(name) ==
    LET dots == {i \in 2..Len(name) : name[i] = "."}
    IN  IF dots = {} THEN <<>>
        ELSE SubSeq(name, CHOOSE i \in dots : \A j \in dots : j <= i, Len(name))

\* Path.with_suffix(suffix)
WithSuffix(name, suffix) ==
    SubSeq(name, 1, Len(name) - Len(PathSuffix(name))) \o suffix

xJpg == <<".", "j", "p", "g">>
xJpeg == <<".", "j", "p", "e", "g">>
xPng == <<".", "p", "n", "g">>
xWebp == <<".", "w", "e", "b", "p">>
xHeic == <<".", "h", "e", "i", "c">>
xHeif == <<".", "h", "e", "i", "f">>

\* ClaudeVisionAnalyzer.get_supported_formats
get_supported_formats == {xJpg, xJpeg, xPng, xWebp}

\* p.suffix.lower() in ['.heic', '.heif']
IsHeic(name) == Lower(PathSuffix(name)) \in {xHeic, xHeif}

\* VisionAnalyzer._is_supported_image
is_supported_image(name) ==
    \/ Lower(PathSuffix(name)) \in get_supported_formats
    \/ Lower(PathSuffix(name)) \in {xHeic, xHeif}

\* State of the two loops of _find_images: the list built so far, the names
\* of the JPEGs written by conversions, and the files of the folder.
\* First pass over entries[i..]: every HEIC/HEIF file is converted; a failing
\* conversion is logged and the file skipped.
RECURSIVE first_pass(_, _, _, _, _)
first_pass(entries, i, st, a, stop_at_max) ==
    IF i > Len(entries) THEN st
    ELSE LET p == entries[i]
         IN  IF p \notin a.folder.val.files
             THEN first_pass(entries, i + 1, st, a, stop_at_max)
             ELSE IF IsHeic(p) /\ p \in a.failing
             THEN first_pass(entries, i + 1, st, a, stop_at_max)
             ELSE LET jpeg == WithSuffix(p, xJpg)
                      st1 == IF IsHeic(p)
                             THEN [image_paths |-> Append(st.image_paths, jpeg),
                                   converted_jpegs |-> st.converted_jpegs \cup {jpeg},
                                   files |-> st.files \cup {jpeg}]
                             ELSE st
                  IN  IF stop_at_max /\ Len(st1.image_paths) >= a.max_images
                      THEN st1
                      ELSE first_pass(entries, i + 1, st1, a, stop_at_max)

\* Second pass over entries[i..]: the other supported files
RECURSIVE second_pass(_, _, _, _)
second_pass(entries, i, st, a) ==
    IF i > Len(entries) THEN st
    ELSE LET p == entries[i]
         IN  IF \/ p \notin st.files
                \/ IsHeic(p)
                \/ p \in st.converted_jpegs
             THEN second_pass(entries, i + 1, st, a)
             ELSE LET st1 == IF is_supported_image(p)
                             THEN [st EXCEPT !.image_paths = Append(@, p)]
                             ELSE st
                  IN  IF Len(st1.image_paths) >= a.max_images
                      THEN st1
                      ELSE second_pass(entries, i + 1, st1, a)

\* the two passes of _find_images; the first stops at max_images iff
\* stop_at_max
find_images_passes(a, stop_at_max) ==
    LET st0 == [image_paths |-> <<>>, converted_jpegs |-> {},
                files |-> a.folder.val.files]
        st1 == first_pass(Sorted(a.folder.val.files \cup a.folder.val.dirs),
                          1, st0, a, stop_at_max)
    IN  IF Len(st1.image_paths) < a.max_images
        THEN second_pass(Sorted(st1.files \cup a.folder.val.dirs), 1, st1, a)
        ELSE st1

\* _find_images whose first pass converts every HEIC file before the cap is
\* looked at
find_images_uncapped_first_pass(a) ==
    IF a.folder = None
    THEN [result |-> Raise("ValueError"), files |-> None]
    ELSE LET st == find_images_passes(a, FALSE)
         IN  [result |-> IF st.image_paths = <<>> THEN Raise("ValueError")
                         ELSE Ok(st.image_paths),
              files |-> Some(st.files)]

\* VisionAnalyzer._find_images(image_folder, max_images): the outcome and the
\* files of the folder afterwards
find_images(a) ==
    IF a.folder = None
    THEN [result |-> Raise("ValueError"), files |-> None]
    ELSE LET st == find_images_passes(a, TRUE)
         IN  [result |-> IF st.image_paths = <<>> THEN Raise("ValueError")
                         ELSE Ok(st.image_paths),
              files |-> Some(st.files)]

-----------------------------------------------------------------------------
(* src/src/vision/blip2_analyzer.py *)

w_new == <<"n", "e", "w">>
w_neu == <<"n", "e", "u">>
w_brand_new == <<"b", "r", "a", "n", "d", " ", "n", "e", "w">>
w_like_new == <<"l", "i", "k", "e", " ", "n", "e", "w">>
w_wie_neu == <<"w", "i", "e", " ", "n", "e", "u">>
w_excellent == <<"e", "x", "c", "e", "l", "l", "e", "n", "t">>
w_defect == <<"d", "e", "f", "e", "c", "t">>
w_broken == <<"b", "r", "o", "k", "e", "n">>
w_defekt == <<"d", "e", "f", "e", "k", "t">>
w_kaputt == <<"k", "a", "p", "u", "t", "t">>
lNeu == <<"N", "e", "u">>
sGebraucht == <<"G", "e", "b", "r", "a", "u", "c", "h", "t">>
lWieNeu == <<"W", "i", "e", " ", "n", "e", "u">>
lDefekt == <<"D", "e", "f", "e", "k", "t">>

\* any(word in text for word in words)
AnyIn(words, text) == \E i \in 1..Len(words) : Contains(text, words[i])

\* BLIP2VisionAnalyzer._normalize_condition
normalize_condition(condition) ==
    LET condition_lower == Lower(condition)
    IN  IF AnyIn(<<w_new, w_neu, w_brand_new>>, condition_lower) THEN lNeu
        ELSE IF AnyIn(<<w_like_new, w_wie_neu, w_excellent>>, condition_lower)
             THEN lWieNeu
        ELSE IF AnyIn(<<w_defect, w_broken, w_defekt, w_kaputt>>, condition_lower)
             THEN lDefekt
        ELSE sGebraucht

sUnbekanntesProdukt ==
    <<"U", "n", "b", "e", "k", "a", "n", "n", "t", "e", "s", " ", "P", "r",
      "o", "d", "u", "k", "t">>
k_electronics == <<"e", "l", "e", "c", "t", "r", "o", "n", "i", "c", "s">>
k_elektronik == <<"e", "l", "e", "k", "t", "r", "o", "n", "i", "k">>
k_furniture == <<"f", "u", "r", "n", "i", "t", "u", "r", "e">>
k_moebel == <<"m", "U+221A", "U+2202", "b", "e", "l">>
k_clothing == <<"c", "l", "o", "t", "h", "i", "n", "g">>
k_kleidung == <<"k", "l", "e", "i", "d", "u", "n", "g">>
k_sports == <<"s", "p", "o", "r", "t", "s">>
k_sport == <<"s", "p", "o", "r", "t">>
k_household == <<"h", "o", "u", "s", "e", "h", "o", "l", "d">>
k_haushalt == <<"h", "a", "u", "s", "h", "a", "l", "t">>
w_unknown == <<"u", "n", "k", "n", "o", "w", "n">>

NameSliceLen == 100
FeatureSliceLen == 100
FeatureMinWords == 5
BasePriceDefault == 50
MultiplierDefault == 7
RoundTo1Below == 10
RoundTo5Below == 100

\* str.upper() on one character
UpperChar(c) ==
    IF \E i \in 1..Len(LowerChars) : LowerChars[i] = c
    THEN UpperChars[CHOOSE i \in 1..Len(LowerChars) : LowerChars[i] = c]
    ELSE c

IsCased(c) ==
    \E i \in 1..Len(LowerChars) : LowerChars[i] = c \/ UpperChars[i] = c

\* str.title(): a cased character is upper-cased after an uncased one (or at
\* the start) and lower-cased after a cased one
Title(s) ==
    [i \in 1..Len(s) |->
        IF i = 1 \/ ~IsCased(s[i - 1]) THEN UpperChar(s[i]) ELSE LowerChar(s[i])]

\* len(s.split())
WordCount(s) ==
    Cardinality({i \in 1..Len(s) :
        s[i] \notin Whitespace /\ (i = 1 \/ s[i - 1] \in Whitespace)})

\* base_prices, in the order of the dict
base_prices ==
    <<[key |-> k_electronics, val |-> 100], [key |-> k_elektronik, val |-> 100],
      [key |-> k_furniture, val |-> 80], [key |-> k_moebel, val |-> 80],
      [key |-> k_clothing, val |-> 20], [key |-> k_kleidung, val |-> 20],
      [key |-> k_sports, val |-> 40], [key |-> k_sport, val |-> 40],
      [key |-> k_household, val |-> 30], [key |-> k_haushalt, val |-> 30]>>

\* condition_multipliers, in tenths
condition_multipliers ==
    <<[key |-> lNeu, val |-> 15], [key |-> lWieNeu, val |-> 12],
      [key |-> sGebraucht, val |-> 7], [key |-> lDefekt, val |-> 3]>>

\* round(x / unit) * unit for x = tenths / 10; round() takes the nearest
\* integer and the even one of two nearest
RoundToUnit(tenths, unit) ==
    LET q == tenths \div (10 * unit)
        r == tenths % (10 * unit)
    IN  IF 2 * r < 10 * unit THEN q * unit
        ELSE IF 2 * r > 10 * unit THEN (q + 1) * unit
        ELSE IF q % 2 = 0 THEN q * unit ELSE (q + 1) * unit

\* BLIP2VisionAnalyzer._estimate_price(category, condition, name): whole
\* euros (every product of a base price and a multiplier is whole)
estimate_price(category, condition, name) ==
    LET hits == {i \in 1..Len(base_prices) :
                     Contains(Lower(category), base_prices[i].key)}
        base == IF hits = {} THEN BasePriceDefault
                ELSE base_prices[CHOOSE i \in hits : \A j \in hits : i <= j].val
        known == {i \in 1..Len(condition_multipliers) :
                      condition_multipliers[i].key = condition}
        multiplier == IF known = {} THEN MultiplierDefault
                      ELSE condition_multipliers[CHOOSE i \in known : TRUE].val
        tenths == base * multiplier
    IN  IF tenths < 10 * RoundTo1Below THEN tenths \div 10
        ELSE IF tenths < 10 * RoundTo5Below THEN RoundToUnit(tenths, 5)
        ELSE RoundToUnit(tenths, 10)

\* BLIP2VisionAnalyzer._extract_product_info, given the model's answer to
\* each prompt (results)
extract_product_info(results) ==
    [name |-> Prefix(results.name, NameSliceLen),
     description |-> results.description,
     condition |-> normalize_condition(results.condition),
     category |-> Some(Title(results.category)),
     brand |-> IF ~Contains(Lower(results.brand), w_unknown)
               THEN Some(results.brand) ELSE None,
     color |-> IF results.color # <<>> THEN Some(results.color) ELSE None,
     features |-> IF results.description # <<>>
                     /\ WordCount(results.description) > FeatureMinWords
                  THEN <<Prefix(results.description, FeatureSliceLen)>>
                  ELSE <<>>,
     suggested_price |-> Some(estimate_price(results.category,
                                             results.condition, results.name))]

-----------------------------------------------------------------------------
(* src/src/content/generator.py *)

TitleSliceLen == 65
DefaultPrice == 10

sSonstiges == <<"S", "o", "n", "s", "t", "i", "g", "e", "s">>
sMerkmaleHeader == <<"\n", "M", "e", "r", "k", "m", "a", "l", "e", ":">>
sBullet == <<"U+2022", " ">>
sMarkeLabel == <<"\n", "M", "a", "r", "k", "e", ":", " ">>
sFarbeLabel == <<"F", "a", "r", "b", "e", ":", " ">>
sPickupNotice ==
    <<"\n", "N", "u", "r", " ", "A", "b", "h", "o", "l", "u", "n", "g", " ",
      "m", "U+00F6", "g", "l", "i", "c", "h", ".">>
sPICKUP == <<"P", "I", "C", "K", "U", "P">>

\* sep.join(parts)
RECURSIVE Join(_, _)
Join(parts, sep) ==
    IF Len(parts) = 0 THEN <<>>
    ELSE IF Len(parts) = 1 THEN parts[1]
    ELSE parts[1] \o sep \o Join(Tail(parts), sep)

\* ContentGenerator._format_description_from_features
format_description_from_features(product_info) ==
    LET features == product_info.features
        parts ==
            <<product_info.description>>
            \o (IF Len(features) > 0
                THEN <<sMerkmaleHeader>>
                     \o [i \in 1..Len(features) |-> sBullet \o features[i]]
                ELSE <<>>)
            \o (IF TruthyStr(product_info.brand)
                THEN <<sMarkeLabel \o product_info.brand.val>> ELSE <<>>)
            \o (IF TruthyStr(product_info.color)
                THEN <<sFarbeLabel \o product_info.color.val>> ELSE <<>>)
            \o <<sPickupNotice>>
    IN  Join(parts, <<"\n">>)

\* price_override if price_override is not None else (suggested_price or 10.0)
resolve_price(product_info, price_override) ==
    IF price_override # None THEN price_override.val
    ELSE IF TruthyNum(product_info.suggested_price)
         THEN product_info.suggested_price.val
         ELSE DefaultPrice

\* category or product_info.category or "Sonstiges"
resolve_category(product_info, category) ==
    IF TruthyStr(category) THEN category.val
    ELSE IF TruthyStr(product_info.category) THEN product_info.category.val
    ELSE sSonstiges

\* generate_ad_content taking the subcategory from the ProductInfo
generate_ad_content_product_subcategory(a) ==
    AdContent([title |-> Prefix(a.product_info.name, TitleSliceLen),
               description |-> format_description_from_features(a.product_info),
               price |-> resolve_price(a.product_info, a.price_override),
               category |-> resolve_category(a.product_info, a.category),
               subcategory |-> a.product_info.subcategory,
               condition |-> a.product_info.condition,
               shipping_type |-> sPICKUP,
               postal_code |-> a.postal_code])

\* ContentGenerator.generate_ad_content(product_info, postal_code, category,
\*                                      subcategory, price_override)
generate_ad_content(a) ==
    AdContent([title |-> Prefix(a.product_info.name, TitleSliceLen),
               description |-> format_description_from_features(a.product_info),
               price |-> resolve_price(a.product_info, a.price_override),
               category |-> resolve_category(a.product_info, a.category),
               subcategory |-> a.subcategory,
               condition |-> a.product_info.condition,
               shipping_type |-> sPICKUP,
               postal_code |-> a.postal_code])

GeneratedTitleMax == 65
GeneratedTitleCut == 62
sEllipsis == <<".", ".", ".">>

\* _generate_title that cuts at the cap before appending "..."
generate_title_cut_at_cap(product_info) ==
    LET components ==
            (IF TruthyStr(product_info.brand) THEN <<product_info.brand.val>> ELSE <<>>)
            \o <<product_info.name>>
            \o (IF TruthyStr(product_info.color) THEN <<product_info.color.val>> ELSE <<>>)
        title == Join(components, <<" ">>)
    IN  IF Len(title) > GeneratedTitleMax
        THEN Prefix(title, GeneratedTitleMax) \o sEllipsis
        ELSE title

\* ContentGenerator._generate_title
generate_title(product_info) ==
    LET components ==
            (IF TruthyStr(product_info.brand) THEN <<product_info.brand.val>> ELSE <<>>)
            \o <<product_info.name>>
            \o (IF TruthyStr(product_info.color) THEN <<product_info.color.val>> ELSE <<>>)
        title == Join(components, <<" ">>)
    IN  IF Len(title) > GeneratedTitleMax
        THEN Prefix(title, GeneratedTitleCut) \o sEllipsis
        ELSE title

sZumVerkauf == <<"Z", "u", "m", " ", "V", "e", "r", "k", "a", "u", "f", ":", " ">>
sMarkeDetail == <<"M", "a", "r", "k", "e", ":", " ">>
sZustandDetail == <<"Z", "u", "s", "t", "a", "n", "d", ":", " ">>
sDash == <<"-", " ">>

\* ContentGenerator._simple_description
simple_description(product_info) ==
    LET details ==
            (IF TruthyStr(product_info.brand)
             THEN <<sMarkeDetail \o product_info.brand.val>> ELSE <<>>)
            \o (IF TruthyStr(product_info.color)
                THEN <<sFarbeLabel \o product_info.color.val>> ELSE <<>>)
            \o <<sZustandDetail \o product_info.condition>>
        features == product_info.features
        parts ==
            <<IF product_info.description # <<>>
              THEN product_info.description
              ELSE sZumVerkauf \o product_info.name>>
            \o (IF Len(details) > 0
                THEN <<<<"\n", "\n">> \o Join(details, <<"\n">>)>> ELSE <<>>)
            \o (IF Len(features) > 0
                THEN <<<<"\n">> \o sMerkmaleHeader>>
                     \o [i \in 1..Len(features) |-> sDash \o features[i]]
                ELSE <<>>)
    IN  Join(parts, <<"\n">>)

\* str.strip()
RECURSIVE Strip(_)
Strip(s) ==
    IF Len(s) = 0 THEN s
    ELSE IF s[1] \in Whitespace THEN Strip(Tail(s))
    ELSE IF s[Len(s)] \in Whitespace THEN Strip(SubSeq(s, 1, Len(s) - 1))
    ELSE s

sSimple == <<"s", "i", "m", "p", "l", "e">>
sClaude == <<"c", "l", "a", "u", "d", "e">>
sGemini == <<"g", "e", "m", "i", "n", "i">>
sOpenai == <<"o", "p", "e", "n", "a", "i">>

\* model or "<the default of the backend>"
model_or(model, default) == IF TruthyStr(model) THEN model ELSE Some(default)

\* __init__ with `if api_key is None:` in the place of `if not api_key:`
ContentGenerator_init_key_not_none(a) ==
    LET backend == Lower(a.backend)
        generator(client, model) ==
            Ok([backend |-> backend, api_key |-> a.api_key, model |-> model,
                client |-> client])
    IN  IF backend = sClaude
        THEN IF a.api_key = None THEN Raise("ValueError")
             ELSE generator(Some("Anthropic"),
                            model_or(a.model, <<"claude-3-5-sonnet-20241022">>))
        ELSE IF backend = sGemini
        THEN IF a.api_key = None THEN Raise("ValueError")
             ELSE generator(Some("GenerativeModel"),
                            model_or(a.model, <<"gemini-pro">>))
        ELSE IF backend = sOpenai
        THEN IF a.api_key = None THEN Raise("ValueError")
             ELSE generator(Some("OpenAI"),
                            model_or(a.model, <<"gpt-4-turbo-preview">>))
        ELSE IF backend = sSimple
        THEN generator(None, a.model)
        ELSE Raise("ValueError")

\* ContentGenerator.__init__(backend, api_key, model); the SDK of the
\* selected backend is installed, so its import succeeds
ContentGenerator_init(a) ==
    LET backend == Lower(a.backend)
        generator(client, model) ==
            Ok([backend |-> backend, api_key |-> a.api_key, model |-> model,
                client |-> client])
    IN  IF backend = sClaude
        THEN IF ~TruthyStr(a.api_key) THEN Raise("ValueError")
             ELSE generator(Some("Anthropic"),
                            model_or(a.model, <<"claude-3-5-sonnet-20241022">>))
        ELSE IF backend = sGemini
        THEN IF ~TruthyStr(a.api_key) THEN Raise("ValueError")
             ELSE generator(Some("GenerativeModel"),
                            model_or(a.model, <<"gemini-pro">>))
        ELSE IF backend = sOpenai
        THEN IF ~TruthyStr(a.api_key) THEN Raise("ValueError")
             ELSE generator(Some("OpenAI"),
                            model_or(a.model, <<"gpt-4-turbo-preview">>))
        ELSE IF backend = sSimple
        THEN generator(None, a.model)
        ELSE Raise("ValueError")

\* the backends __init__ accepts
Backends == {"claude", "gemini", "openai", "simple"}

\* Outcomes of the request and of reading the text out of its response:
\* the client call raises, the access path to the text raises, or the text
\* is read.
CallRaises(e) == [kind |-> "call_raises", error |-> e]
ReadRaises(e) == [kind |-> "read_raises", error |-> e]
Text(s) == [kind |-> "text", text |-> s]

\* classes derived from Exception; KeyboardInterrupt derives from
\* BaseException only
ExceptionClasses ==
    {"APIConnectionError", "AuthenticationError", "IndexError",
     "AttributeError", "ValueError"}

\* _enhance_description behind a handler that catches errors of the request
\* only
enhanced_or_fallback_call_errors_only(product_info, response) ==
    IF response.kind = "text" THEN Ok(Strip(response.text))
    ELSE IF response.kind = "call_raises" /\ response.error \in ExceptionClasses
         THEN Ok(simple_description(product_info))
         ELSE Raise(response.error)

\* the try block of _enhance_description with its `except Exception` handler,
\* given what the request came to
enhanced_or_fallback(product_info, response) ==
    IF response.kind = "text" THEN Ok(Strip(response.text))
    ELSE IF response.error \in ExceptionClasses
         THEN Ok(simple_description(product_info))
         ELSE Raise(response.error)

-----------------------------------------------------------------------------
(* analyze_images of src/src/vision/claude_analyzer.py and                 *)
(* src/src/vision/blip2_analyzer.py                                         *)

\* Replies to the request of the Claude analyzer: the call raises, the text
\* is not JSON, or it is a JSON object (an absent or null key is None)
MalformedReply == [kind |-> "malformed"]
JsonReply(data) == [kind |-> "json", data |-> data]

\* the try block of ClaudeVisionAnalyzer.analyze_images: request, json.loads,
\* ProductInfo(...); every error is logged and raised again
claude_request_and_parse(reply, image_paths) ==
    IF reply.kind = "call_raises" THEN Raise(reply.error)
    ELSE IF reply.kind = "malformed" THEN Raise("JSONDecodeError")
    ELSE ProductInfo(
             [name |-> IF reply.data.name = None THEN sUnbekanntesProdukt
                       ELSE reply.data.name.val,
              description |-> <<>>,
              condition |-> sGebraucht,
              category |-> reply.data.category,
              subcategory |-> None,
              brand |-> reply.data.brand,
              color |-> reply.data.color,
              features |-> <<>>,
              suggested_price |-> reply.data.suggested_price,
              image_paths |-> image_paths])

\* the answer _analyze_single_image gives to every prompt when the image
\* cannot be opened or the model fails
NoAnswers ==
    [name |-> <<>>, description |-> <<>>, condition |-> <<>>,
     category |-> <<>>, brand |-> <<>>, color |-> <<>>]

\* the prompts of _extract_product_info
PromptCount == 6

\* _extract_product_info and ProductInfo(...) of
\* BLIP2VisionAnalyzer.analyze_images
blip2_extract_and_build(results, image_paths) ==
    LET data == extract_product_info(results)
    IN  ProductInfo(
            [name |-> data.name,
             description |-> data.description,
             condition |-> data.condition,
             category |-> data.category,
             subcategory |-> None,
             brand |-> data.brand,
             color |-> data.color,
             features |-> data.features,
             suggested_price |-> data.suggested_price,
             image_paths |-> image_paths])

-----------------------------------------------------------------------------
(* src/src/automation/kleinanzeigen.py *)

sYes == <<"y", "e", "s">>
sCwd == <<"/", "w", "/">>

\* str(p.resolve()) of a relative path
Resolve(p) == sCwd \o p

\* upload_images without the HEIC filter
uploadable_images_unfiltered(image_paths) == image_paths

\* upload_images: [p for p in image_paths
\*                 if p.suffix.lower() not in ['.heic', '.heif']]
uploadable_images(image_paths) ==
    SelectSeq(image_paths, LAMBDA p : Lower(PathSuffix(p)) \notin {xHeic, xHeif})

\* a save_as_draft that never asks
save_confirmed_without_asking(auto_confirm, typed) == TRUE

\* save_as_draft: the save goes ahead iff auto_confirm, or
\* input(...).strip().lower() == 'yes'
save_confirmed(auto_confirm, typed) ==
    auto_confirm \/ Lower(Strip(typed)) = sYes

-----------------------------------------------------------------------------
(* src/src/content/categories.py *)
(* CategoryMapper.__init__ loads data['categories'] (category name ->       *)
(* {'subcategories': {subcategory name -> [items]}}) and data['keywords']   *)
(* (category name -> [keywords]).  A taxonomy is                            *)
(* [categories |-> dict, keywords |-> dict]; the val of a categories entry  *)
(* is its 'subcategories' dict.                                             *)

\* key in d
HasKey(d, k) == \E i \in 1..Len(d) : d[i].key = k
\* d[k]
Get(d, k) == d[CHOOSE i \in 1..Len(d) : d[i].key = k].val
\* set(d.keys())
Keys(d) == {d[i].key : i \in 1..Len(d)}

\* `keyword in text_lower`: the keyword is used as written in the file
keyword_in_text(keyword, text_lower) == Contains(text_lower, keyword)

\* sum(1 for keyword in keywords if keyword in text_lower)
count_matches(keywords, text_lower) ==
    Cardinality({j \in 1..Len(keywords) : keyword_in_text(keywords[j], text_lower)})

\* the loop of _match_keywords from entry i on, with the running best
RECURSIVE match_keywords_from(_, _, _, _, _)
match_keywords_from(keywords, text_lower, i, best_match, max_matches) ==
    IF i > Len(keywords)
    THEN IF max_matches > 0 THEN best_match ELSE None
    ELSE LET matches == count_matches(keywords[i].val, text_lower)
         IN  IF matches > max_matches
             THEN match_keywords_from(keywords, text_lower, i + 1,
                                      Some(keywords[i].key), matches)
             ELSE match_keywords_from(keywords, text_lower, i + 1,
                                      best_match, max_matches)

\* CategoryMapper._match_keywords
match_keywords(tax, text) ==
    match_keywords_from(tax.keywords, Lower(text), 1, None, 0)

\* the subcategory name and the items used as written, without .lower()
subcategory_matches_as_written(entry, text_lower) ==
    \/ Contains(text_lower, entry.key)
    \/ \E j \in 1..Len(entry.val) : Contains(text_lower, entry.val[j])

\* subcat.lower() in text_lower, or item.lower() in text_lower for an item
subcategory_matches(entry, text_lower) ==
    \/ Contains(text_lower, Lower(entry.key))
    \/ \E j \in 1..Len(entry.val) : Contains(text_lower, Lower(entry.val[j]))

\* the scan of _find_subcategory over the category's subcategories: the first
\* subcategory whose name or one of whose items occurs in the text, else the
\* first subcategory, else None
find_subcategory_scan(subcategories, text) ==
    LET text_lower == Lower(text)
        hits == {i \in 1..Len(subcategories) :
                    subcategory_matches(subcategories[i], text_lower)}
    IN  IF hits # {}
        THEN Some(subcategories[CHOOSE i \in hits : \A j \in hits : i <= j].key)
        ELSE IF Len(subcategories) > 0
             THEN Some(subcategories[1].key)
             ELSE None

\* _find_subcategory without its `category not in self.categories` guard:
\* self.categories[category] raises KeyError for an unknown category
find_subcategory_no_guard(tax, category, text) ==
    IF ~HasKey(tax.categories, category) THEN Raise("KeyError")
    ELSE Ok(find_subcategory_scan(Get(tax.categories, category), text))

\* CategoryMapper._find_subcategory
find_subcategory(tax, category, text) ==
    IF ~HasKey(tax.categories, category) THEN Ok(None)
    ELSE Ok(find_subcategory_scan(Get(tax.categories, category), text))

\* cat.lower() in detected.lower() or detected.lower() in cat.lower()
hint_matches(cat, detected_category) ==
    \/ Contains(Lower(detected_category), Lower(cat))
    \/ Contains(Lower(cat), Lower(detected_category))

\* a loop that keeps the last matching category (no break)
last_hint_match(tax, detected_category) ==
    LET hits == {i \in 1..Len(tax.categories) :
                    hint_matches(tax.categories[i].key, detected_category.val)}
    IN  IF TruthyStr(detected_category) /\ hits # {}
        THEN Some(tax.categories[CHOOSE i \in hits : \A j \in hits : i >= j].key)
        ELSE None

\* `if detected_category: for cat in self.categories.keys(): if ...: category = cat; break`
first_hint_match(tax, detected_category) ==
    LET hits == {i \in 1..Len(tax.categories) :
                    hint_matches(tax.categories[i].key, detected_category.val)}
    IN  IF TruthyStr(detected_category) /\ hits # {}
        THEN Some(tax.categories[CHOOSE i \in hits : \A j \in hits : i <= j].key)
        ELSE None

\* CategoryMapper.map_category(product_name, product_description, detected_category)
map_category(a) ==
    LET combined_text == a.product_name \o <<" ">> \o a.product_description
        hinted == first_hint_match(a.tax, a.detected_category)
        matched == IF ~TruthyStr(hinted)
                   THEN match_keywords(a.tax, combined_text) ELSE hinted
        category == IF ~TruthyStr(matched) THEN sSonstiges ELSE matched.val
        subcategory == find_subcategory(a.tax, category, combined_text)
    IN  IF subcategory.ok THEN Ok(<<category, subcategory.val>>) ELSE subcategory

-----------------------------------------------------------------------------
(* src/src/automation/browser.py *)

\* BrowserController.__init__, with the browser the user runs; close_raised
\* tells whether a close() call let an exception out
NoBrowser ==
    [playwright |-> "none", browser |-> "none", context |-> "none",
     page |-> "none", user_browser |-> "running", user_context |-> "absent",
     closes |-> 0, close_raised |-> FALSE]

\* close() with the two commented-out blocks active: the context and the
\* browser are closed as well
close_user_session(br, page_close_ok) ==
    IF br.page # "none" /\ ~page_close_ok
    THEN [br EXCEPT !.closes = @ + 1]
    ELSE [br EXCEPT !.closes = @ + 1,
                    !.page = IF @ # "none" THEN "closed" ELSE @,
                    !.user_context =
                        IF br.context = "user" THEN "closed" ELSE @,
                    !.user_browser =
                        IF br.browser # "none" THEN "closed" ELSE @,
                    !.playwright = IF @ # "none" THEN "stopped" ELSE @]

\* BrowserController.close: page.close() if self.page, playwright.stop() if
\* self.playwright; an exception of page.close() skips the rest and is logged
close(br, page_close_ok) ==
    IF br.page # "none" /\ ~page_close_ok
    THEN [br EXCEPT !.closes = @ + 1]
    ELSE [br EXCEPT !.closes = @ + 1,
                    !.page = IF @ # "none" THEN "closed" ELSE @,
                    !.playwright = IF @ # "none" THEN "stopped" ELSE @]

ConnectOutcomes ==
    {"no_playwright", "no_browser", "no_context", "no_page", "no_timeout",
     "connected"}

\* BrowserController.connect up to the point where outcome says it stops:
\* async_playwright().start(), connect_over_cdp, contexts[0] or
\* new_context(), new_page(), set_default_timeout
connect_progress(br, outcome) ==
    LET context == IF br.user_context = "open" THEN "user" ELSE "own"
    IN  CASE outcome = "no_playwright" -> br
          [] outcome = "no_browser" -> [br EXCEPT !.playwright = "started"]
          [] outcome = "no_context" ->
                 [br EXCEPT !.playwright = "started", !.browser = "connected"]
          [] outcome = "no_page" ->
                 [br EXCEPT !.playwright = "started", !.browser = "connected",
                            !.context = context]
          [] OTHER ->
                 [br EXCEPT !.playwright = "started", !.browser = "connected",
                            !.context = context, !.page = "open"]

\* the outcomes connect can have with the user's session as it is:
\* new_context() is only called when the browser has no context
connect_outcomes(br) ==
    IF br.user_context = "open" THEN ConnectOutcomes \ {"no_context"}
    ELSE ConnectOutcomes

-----------------------------------------------------------------------------
(* src/src/main.py *)

\* an exception of a stage is not caught
after_stage_uncaught(ok, next) == next

\* the outer try of main_async: an exception of a stage leaves the pipeline
\* for `except Exception` and sys.exit(1)
after_stage(ok, next) == IF ok THEN next ELSE "fatal"

-----------------------------------------------------------------------------
(* Inputs of AdContent construction *)

MaxTitleLen == 67
MaxPostalLen == 6

sTest == <<"T", "e", "s", "t">>
s12345 == <<"1", "2", "3", "4", "5">>
s123 == <<"1", "2", "3">>
sSHIPPING == <<"S", "H", "I", "P", "P", "I", "N", "G">>
sBOTH == <<"B", "O", "T", "H">>
sEXPRESS == <<"E", "X", "P", "R", "E", "S", "S">>

\* "A" * n for n = 0..MaxTitleLen (tests/test_models.py uses "A" * 70)
Titles == {Repeat("A", n) : n \in 0..MaxTitleLen}
FewTitles == {sTest, Repeat("A", ValidatorTitleMax + 1)}

\* every string of an ASCII digit, a non-ASCII digit and a letter, length 0..MaxPostalLen
PostalAlphabet == {"7", "U+0663", "A"}
PostalCodes == StringsUpTo(PostalAlphabet, MaxPostalLen) \cup {s12345, s123}
FewPostalCodes == {s12345, s123}

Prices == {-1, 0, 100}
AdCategories == {<<>>, sTest}
ShippingTypes == {sPICKUP, sEXPRESS}

\* One of title / postal_code ranges over its whole set while the other takes
\* a representative valid or invalid value.
AdContentKw(titles, postals) ==
    [title : titles, description : {sTest}, price : Prices,
     category : AdCategories, subcategory : {None},
     condition : {sGebraucht}, shipping_type : ShippingTypes,
     postal_code : postals]
AdContentInputs ==
    AdContentKw(Titles, FewPostalCodes) \cup AdContentKw(FewTitles, PostalCodes)

-----------------------------------------------------------------------------
(* Inputs of generate_ad_content *)

MaxNameLen == 67

sElektronik == <<"E", "l", "e", "k", "t", "r", "o", "n", "i", "k">>
sMoebelWohnen ==
    <<"M", "U+00F6", "b", "e", "l", " ", "&", " ", "W", "o", "h", "n", "e", "n">>
sLaptopDell == <<"L", "a", "p", "t", "o", "p", " ", "D", "e", "l", "l">>
sDell == <<"D", "e", "l", "l">>
sRot == <<"r", "o", "t">>
sWLAN == <<"W", "L", "A", "N">>
sGutErhalten == <<"G", "u", "t", " ", "e", "r", "h", "a", "l", "t", "e", "n">>
sNeu == <<"N", "e", "u">>
sAudioHiFi == <<"A", "u", "d", "i", "o", " ", "&", " ", "H", "i", "F", "i">>
s1234A == <<"1", "2", "3", "4", "A">>

\* "ababab..." of length n: the characters of a prefix tell its length
NameOfLen(n) == [i \in 1..n |-> IF i % 2 = 1 THEN "a" ELSE "b"]
ProductNames ==
    {sLaptopDell} \cup {NameOfLen(n) : n \in {0, 1} \cup (TitleSliceLen - 1)..MaxNameLen}

\* ProductInfo objects: suggested_price passed ProductInfo.validate_price
ProductInfos ==
    {p \in [name : ProductNames,
            description : {<<>>, sGutErhalten},
            condition : {sGebraucht, sNeu},
            category : {None, Some(<<>>), Some(sMoebelWohnen)},
            subcategory : {None},
            suggested_price : {None, Some(-1), Some(0), Some(50)},
            brand : {None, Some(sDell)},
            color : {None, Some(sRot)},
            features : {<<>>, <<sWLAN>>},
            image_paths : {<<>>}] :
        ProductInfo_validate_price(p.suggested_price)}

GenerateInputs ==
    [product_info : ProductInfos,
     postal_code : {s12345, s123, s1234A, Repeat("U+0663", PostalCodeLen)},
     category : {None, Some(<<>>), Some(sElektronik)},
     subcategory : {None, Some(sAudioHiFi)},
     price_override : {None, Some(-5), Some(0), Some(150)}]

-----------------------------------------------------------------------------
(* Inputs of map_category *)

MaxDescWords == 2

sComputerZubehoer ==
    <<"C", "o", "m", "p", "u", "t", "e", "r", " ", "&", " ", "Z", "u", "b",
      "e", "h", "U+00F6", "r">>
sWohnzimmer == <<"W", "o", "h", "n", "z", "i", "m", "m", "e", "r">>
sVerschiedenes ==
    <<"V", "e", "r", "s", "c", "h", "i", "e", "d", "e", "n", "e", "s">>
sLautsprecher == <<"L", "a", "u", "t", "s", "p", "r", "e", "c", "h", "e", "r">>
sKopfhoerer == <<"K", "o", "p", "f", "h", "U+00F6", "r", "e", "r">>
sLaptops == <<"L", "a", "p", "t", "o", "p", "s">>
sMonitore == <<"M", "o", "n", "i", "t", "o", "r", "e">>
sSofas == <<"S", "o", "f", "a", "s">>
sCouchtische == <<"C", "o", "u", "c", "h", "t", "i", "s", "c", "h", "e">>
sSpielzeug == <<"S", "p", "i", "e", "l", "z", "e", "u", "g">>
kw_elektronik == <<"e", "l", "e", "k", "t", "r", "o", "n", "i", "k">>
kw_laptop == <<"l", "a", "p", "t", "o", "p">>
kw_computer == <<"c", "o", "m", "p", "u", "t", "e", "r">>
kw_kopfhoerer == <<"k", "o", "p", "f", "h", "U+00F6", "r", "e", "r">>
kw_moebel == <<"m", "U+00F6", "b", "e", "l">>
kw_sofa == <<"s", "o", "f", "a">>
kw_tisch == <<"t", "i", "s", "c", "h">>
kw_lego == <<"l", "e", "g", "o">>
kw_Laptop == <<"L", "a", "p", "t", "o", "p">>
kw_SOFA == <<"S", "O", "F", "A">>
sDing == <<"D", "i", "n", "g">>
sElektro == <<"e", "l", "e", "k", "t", "r", "o">>
sELEKTRONIK == <<"E", "L", "E", "K", "T", "R", "O", "N", "I", "K">>
sHeimelektronik ==
    <<"H", "e", "i", "m", "e", "l", "e", "k", "t", "r", "o", "n", "i", "k">>
sWohnen == <<"W", "o", "h", "n", "e", "n">>
sAuto == <<"A", "u", "t", "o">>

Entry(k, v) == [key |-> k, val |-> v]

\* the taxonomy of tests/test_categories.py
TaxFixture ==
    [categories |->
        <<Entry(sElektronik,
                <<Entry(sAudioHiFi, <<sLautsprecher, sKopfhoerer>>),
                  Entry(sComputerZubehoer, <<sLaptops, sMonitore>>)>>),
          Entry(sMoebelWohnen,
                <<Entry(sWohnzimmer, <<sSofas, sCouchtische>>)>>),
          Entry(sSonstiges,
                <<Entry(sVerschiedenes, <<sSonstiges>>)>>)>>,
     keywords |->
        <<Entry(sElektronik, <<kw_elektronik, kw_laptop, kw_computer, kw_kopfhoerer>>),
          Entry(sMoebelWohnen, <<kw_moebel, kw_sofa, kw_tisch>>)>>]

\* keywords written with capitals, the keywords section in the other order, a
\* category without subcategories, no entry for "Sonstiges"
TaxCapitals ==
    [categories |->
        <<Entry(sElektronik, <<>>),
          Entry(sMoebelWohnen,
                <<Entry(sWohnzimmer, <<sSofas, sCouchtische>>)>>)>>,
     keywords |->
        <<Entry(sMoebelWohnen, <<kw_SOFA, kw_tisch>>),
          Entry(sElektronik, <<kw_Laptop, kw_computer>>)>>]

\* a keywords entry for a category the categories section does not have
TaxKeywordsOnly ==
    [categories |->
        <<Entry(sElektronik,
                <<Entry(sComputerZubehoer, <<sLaptops, sMonitore>>)>>),
          Entry(sSonstiges, <<>>)>>,
     keywords |->
        <<Entry(sSpielzeug, <<kw_lego>>),
          Entry(sElektronik, <<kw_laptop, kw_computer>>)>>]

\* a category whose name is the empty string
TaxEmptyName ==
    [categories |->
        <<Entry(<<>>, <<Entry(sVerschiedenes, <<>>)>>),
          Entry(sElektronik,
                <<Entry(sComputerZubehoer, <<sLaptops, sMonitore>>)>>)>>,
     keywords |->
        <<Entry(sElektronik, <<kw_laptop, kw_sofa>>)>>]

Taxonomies == {TaxFixture, TaxCapitals, TaxKeywordsOnly, TaxEmptyName}

Words == {kw_laptop, kw_Laptop, kw_sofa, kw_SOFA, kw_lego, sDing}
MapProductNames == {kw_Laptop, kw_sofa, sDing}

\* word1 + " " + word2 + ...
Sentences(n) == {Join(ws, <<" ">>) : ws \in StringsUpTo(Words, n)}

Hints ==
    {None, Some(<<>>), Some(sElektronik), Some(sELEKTRONIK), Some(sElektro),
     Some(sHeimelektronik), Some(sWohnen), Some(<<"o">>), Some(sAuto)}

sDellLaptop15Zoll ==
    <<"D", "e", "l", "l", " ", "L", "a", "p", "t", "o", "p", " ", "1", "5",
      " ", "Z", "o", "l", "l">>
s2MONITORE == <<"2", " ", "M", "O", "N", "I", "T", "O", "R", "E">>
sFuerComputerZubehoer ==
    <<"f", "U+00FC", "r", " ", "c", "o", "m", "p", "u", "t", "e", "r", " ",
      "&", " ", "z", "u", "b", "e", "h", "U+00F6", "r">>
sMonitoreUndKopfhoerer ==
    <<"M", "o", "n", "i", "t", "o", "r", "e", " ", "u", "n", "d", " ", "K",
      "o", "p", "f", "h", "U+00F6", "r", "e", "r">>

\* descriptions that name a subcategory or one of its example items, and the
\* description of test_subcategory_matching
SubcategoryDescriptions ==
    {sDellLaptop15Zoll, s2MONITORE, sFuerComputerZubehoer, sMonitoreUndKopfhoerer}

MapInputs ==
    [tax : Taxonomies,
     product_name : MapProductNames,
     product_description : Sentences(MaxDescWords) \cup SubcategoryDescriptions,
     detected_category : Hints]

-----------------------------------------------------------------------------
(* Inputs of _generate_title *)

\* names of every length 0..MaxNameLen, with brand and color absent, empty
\* (as the BLIP-2 backend can deliver them) or set
TitleProductInfos ==
    [name : {NameOfLen(n) : n \in 0..MaxNameLen},
     description : {<<>>},
     condition : {sGebraucht},
     category : {None},
     subcategory : {None},
     suggested_price : {None},
     brand : {None, Some(<<>>), Some(sDell)},
     color : {None, Some(<<>>), Some(sRot)},
     features : {<<>>},
     image_paths : {<<>>}]

-----------------------------------------------------------------------------
(* Inputs of _enhance_description and outcomes of its backend request *)

sReply == <<"T", "o", "p", "!">>

EnhanceProductInfos ==
    [name : {kw_Laptop},
     description : {<<>>, sGutErhalten},
     condition : {sGebraucht},
     category : {None},
     subcategory : {None},
     suggested_price : {None},
     brand : {None, Some(<<>>), Some(sDell)},
     color : {None, Some(sRot)},
     features : {<<>>, <<sWLAN>>},
     image_paths : {<<>>}]

EnhanceInputs == [backend : Backends, product_info : EnhanceProductInfos]

\* errors the access path to the text can raise: response.content[0].text,
\* response.text, response.choices[0].message.content.strip()
ReadErrors(backend) ==
    IF backend = "gemini" THEN {"ValueError"} ELSE {"IndexError", "AttributeError"}

ResponseTexts == {<<>>, <<" ">>, sReply, <<" ">> \o sReply \o <<"\n">>}

BackendOutcomes(backend) ==
    {CallRaises(e) : e \in {"APIConnectionError", "AuthenticationError",
                            "KeyboardInterrupt"}}
    \cup {ReadRaises(e) : e \in ReadErrors(backend)}
    \cup {Text(s) : s \in ResponseTexts}

-----------------------------------------------------------------------------
(* Inputs of ProductInfo *)

ProductInfoInputs ==
    [name : {sTest},
     description : {<<>>, sTest},
     condition : {sGebraucht, sNeu},
     category : {None, Some(sElektronik)},
     subcategory : {None},
     suggested_price : {None, Some(-500), Some(-10), Some(-1), Some(0),
                        Some(1), Some(500)},
     brand : {None, Some(sDell)},
     color : {None},
     features : {<<>>, <<sWLAN>>},
     image_paths : {<<>>}]

-----------------------------------------------------------------------------
(* Inputs of _find_images *)

MaxFiles == 3
MaxImages == 2

xHEIC == <<".", "H", "E", "I", "C">>
xJPG == <<".", "J", "P", "G">>
xTxt == <<".", "t", "x", "t">>

\* file names: a one-letter stem and a suffix
FileNames ==
    {<<stem>> \o suffix : stem \in {"a", "b"},
                          suffix \in {xHEIC, xHeif, xJPG, xJpg, xPng, xTxt}}
dirC == <<"c", ".", "p", "n", "g">>

Folders ==
    [files : {F \in SUBSET FileNames : Cardinality(F) <= MaxFiles},
     dirs : {{}, {dirC}}]

\* an existing or missing folder, the cap, and the HEIC/HEIF files whose
\* conversion raises
FindInputs ==
    {a \in [folder : {None} \cup {Some(f) : f \in Folders},
            max_images : 1..MaxImages,
            failing : SUBSET {n \in FileNames : IsHeic(n)}] :
        IF a.folder = None THEN a.failing = {}
        ELSE a.failing \subseteq a.folder.val.files}

-----------------------------------------------------------------------------
(* Inputs of _normalize_condition *)

MaxCondWords == 2

ConditionWords ==
    {<<"l", "i", "k", "e">>, w_new, <<"N", "e", "w">>, <<"w", "i", "e">>, w_neu,
     w_excellent, w_broken, w_defekt, <<"u", "s", "e", "d">>}

\* answers of the model: up to MaxCondWords words
ConditionAnswers ==
    {Join(ws, <<" ">>) : ws \in StringsUpTo(ConditionWords, MaxCondWords)}

-----------------------------------------------------------------------------
(* Inputs of analyze_images *)

fAJpg == <<"a">> \o xJpg
fBHEIC == <<"b">> \o xHEIC
fBJpg == <<"b">> \o xJpg
fATxt == <<"a">> \o xTxt

sLaptopAnswer == <<"l", "a", "p", "t", "o", "p">>
sSixWords == <<"a", " ", "b", " ", "c", " ", "d", " ", "e", " ", "f">>
sRed == <<"r", "e", "d">>

AnalyzeFindInputs ==
    {a \in [folder : {None} \cup {Some([files |-> F, dirs |-> {}]) :
                                      F \in SUBSET {fAJpg, fBHEIC, fATxt}},
            max_images : {MaxImages},
            failing : SUBSET {fBHEIC}] :
        IF a.folder = None THEN a.failing = {}
        ELSE a.failing \subseteq a.folder.val.files}

ClaudeData ==
    [name : {None, Some(kw_Laptop)},
     category : {None, Some(<<>>), Some(sElektronik)},
     brand : {None, Some(<<>>), Some(sDell)},
     color : {None, Some(sRot)},
     suggested_price : {None, Some(-5), Some(50)}]

ClaudeReplies ==
    {CallRaises("APIConnectionError"), MalformedReply}
    \cup {JsonReply(d) : d \in ClaudeData}

Blip2Answers ==
    [name : {<<>>, sLaptopAnswer},
     description : {<<>>, sSixWords},
     condition : {<<>>, w_like_new},
     category : {<<>>, k_electronics},
     brand : {<<>>, w_unknown, sDell},
     color : {<<>>, sRed}]

\* the images _find_images will return
FoundImages(find) ==
    LET r == find_images(find).result
    IN  IF r.ok THEN {r.val[i] : i \in 1..Len(r.val)} ELSE {}

\* a call: the backend, the folder, the returned images that cannot be
\* opened or encoded, and what the backend answers
AnalyzeInputs ==
    {a \in [backend : {"claude"}, find : AnalyzeFindInputs,
            unreadable : SUBSET {fAJpg, fBJpg}, reply : ClaudeReplies]
           \cup [backend : {"blip2"}, find : AnalyzeFindInputs,
                 unreadable : SUBSET {fAJpg, fBJpg}, reply : Blip2Answers] :
        a.unreadable \subseteq FoundImages(a.find)}

-----------------------------------------------------------------------------
(* Inputs of create_ad *)

MaxUploadImages == 2

fCPng == <<"c">> \o xPng
fDHeif == <<"d">> \o xHeif

ImagePathLists == StringsUpTo({fAJpg, fBHEIC, fCPng, fDHeif}, MaxUploadImages)

\* what the user types at the prompt; None: stdin is closed
TypedInputs ==
    {None, Some(sYes), Some(<<"Y", "e", "s">>), Some(<<" ">> \o sYes \o <<" ">>),
     Some(<<"n", "o">>), Some(<<>>)}

ValidAd ==
    [title |-> sTest, description |-> sTest, price |-> 100, category |-> sTest,
     subcategory |-> None, condition |-> sGebraucht, shipping_type |-> sPICKUP,
     postal_code |-> s12345]

CreateAdInputs ==
    [ad_content : {ValidAd}, image_paths : ImagePathLists,
     save_as_draft : BOOLEAN, auto_confirm : BOOLEAN, typed : TypedInputs]

-----------------------------------------------------------------------------
(* Inputs of main_async *)

fCJpg == <<"c">> \o xJpg

RunProductInfos ==
    [name : {sLaptopDell, kw_sofa},
     description : {sGutErhalten},
     condition : {sGebraucht},
     category : {None},
     subcategory : {None},
     suggested_price : {Some(50)},
     brand : {None},
     color : {None},
     features : {<<>>},
     image_paths : {<<>>, <<fAJpg>>, <<fBJpg, fAJpg>>, <<fCJpg, fBHEIC, fAJpg>>}]

\* --postal-code, --price, kleinanzeigen.draft_mode, what the user types at
\* the prompt, what analyzer.analyze_images returns or raises, and whether
\* the browser of the user has a context
RunInputs ==
    [tax : {TaxFixture},
     postal_code : {s12345, s123},
     price_override : {None, Some(-5)},
     draft_mode : BOOLEAN,
     typed : TypedInputs,
     analysis : {Raise("ValueError")} \cup {Ok(p) : p \in RunProductInfos},
     has_context : BOOLEAN]

-----------------------------------------------------------------------------
(* Inputs of ContentGenerator construction *)

\* a word in every mix of upper and lower case
RECURSIVE CaseVariants(_)
CaseVariants(w) ==
    IF w = <<>> THEN {<<>>}
    ELSE {<<c>> \o v : c \in {w[1], UpperChar(w[1])}, v \in CaseVariants(Tail(w))}

OtherSelectors ==
    {<<>>, <<"g", "p", "t">>, <<"s", "i", "m", "p", "l">>, <<" ">> \o sSimple,
     sClaude \o <<"3">>, <<"b", "l", "i", "p", "2">>}

Selectors ==
    CaseVariants(sSimple) \cup CaseVariants(sClaude) \cup CaseVariants(sGemini)
    \cup CaseVariants(sOpenai) \cup OtherSelectors

ConstructGeneratorInputs ==
    [backend : Selectors,
     api_key : {None, Some(<<>>), Some(<<" ">>), Some(<<"k", "e", "y">>)},
     model : {None, Some(<<"m">>)}]

-----------------------------------------------------------------------------
(* Construction of the data models: the arguments are drawn in the initial  *)
(* state, the action is the constructor call.                               *)

\* AdContent(title=..., description=..., price=..., category=..., postal_code=...)
ConstructAdContent ==
    /\ adArgs # NoCall
    /\ adResult = NoCall
    /\ adResult' = AdContent(adArgs)
    /\ UNCHANGED <<adArgs, piVars, genVars, titleVars, mapVars, enhVars, findVars, condVars, anVars, caVars, runVars, cgVars>>

\* generator.generate_ad_content(product_info, postal_code, category,
\*                               subcategory, price_override)
GenerateAdContent ==
    /\ genArgs # NoCall
    /\ genResult = NoCall
    /\ genResult' = generate_ad_content(genArgs)
    /\ UNCHANGED <<adVars, piVars, genArgs, titleVars, mapVars, enhVars, findVars, condVars, anVars, caVars, runVars, cgVars>>

\* ProductInfo(name=..., description=..., suggested_price=...)
ConstructProductInfo ==
    /\ piArgs # NoCall
    /\ piResult = NoCall
    /\ piResult' = ProductInfo(piArgs)
    /\ UNCHANGED <<adVars, piArgs, genVars, titleVars, mapVars, enhVars, findVars, condVars, anVars, caVars, runVars, cgVars>>

InitModels ==
    /\ \/ adArgs \in AdContentInputs /\ piArgs = NoCall
       \/ adArgs = NoCall /\ piArgs \in ProductInfoInputs
    /\ adResult = NoCall
    /\ genArgs = NoCall
    /\ genResult = NoCall
    /\ mapArgs = NoCall
    /\ mapResult = NoCall
    /\ piResult = NoCall
    /\ titleArgs = NoCall
    /\ titleResult = NoCall
    /\ enhArgs = NoCall
    /\ enhRequests = 0
    /\ enhResponse = NoCall
    /\ enhResult = NoCall
    /\ findArgs = NoCall
    /\ findFiles = NoCall
    /\ findResult = NoCall
    /\ condArgs = NoCall
    /\ condResult = NoCall
    /\ anArgs = NoCall
    /\ anPc = "start"
    /\ anPaths = NoCall
    /\ anCalls = 0
    /\ anResult = NoCall
    /\ caArgs = NoCall
    /\ caPc = "start"
    /\ caLog = <<>>
    /\ caUploads = <<>>
    /\ caResult = NoCall
    /\ runArgs = NoCall
    /\ runPc = "start"
    /\ runProductInfo = None
    /\ runCategory = None
    /\ runAd = None
    /\ runFailed = None
    /\ runConnects = 0
    /\ runCreateAdCalls = 0
    /\ brState = NoBrowser
    /\ runExit = None
    /\ cgArgs = NoCall
    /\ cgResult = NoCall

NextModels == ConstructAdContent \/ ConstructProductInfo

SpecModels == InitModels /\ [][NextModels]_vars

InitGenerator ==
    /\ adArgs = NoCall
    /\ adResult = NoCall
    /\ genArgs \in GenerateInputs
    /\ genResult = NoCall
    /\ mapArgs = NoCall
    /\ mapResult = NoCall
    /\ piArgs = NoCall
    /\ piResult = NoCall
    /\ titleArgs = NoCall
    /\ titleResult = NoCall
    /\ enhArgs = NoCall
    /\ enhRequests = 0
    /\ enhResponse = NoCall
    /\ enhResult = NoCall
    /\ findArgs = NoCall
    /\ findFiles = NoCall
    /\ findResult = NoCall
    /\ condArgs = NoCall
    /\ condResult = NoCall
    /\ anArgs = NoCall
    /\ anPc = "start"
    /\ anPaths = NoCall
    /\ anCalls = 0
    /\ anResult = NoCall
    /\ caArgs = NoCall
    /\ caPc = "start"
    /\ caLog = <<>>
    /\ caUploads = <<>>
    /\ caResult = NoCall
    /\ runArgs = NoCall
    /\ runPc = "start"
    /\ runProductInfo = None
    /\ runCategory = None
    /\ runAd = None
    /\ runFailed = None
    /\ runConnects = 0
    /\ runCreateAdCalls = 0
    /\ brState = NoBrowser
    /\ runExit = None
    /\ cgArgs = NoCall
    /\ cgResult = NoCall

NextGenerator == GenerateAdContent

SpecGenerator == InitGenerator /\ [][NextGenerator]_vars

\* generator._generate_title(product_info)
GenerateTitle ==
    /\ titleArgs # NoCall
    /\ titleResult = NoCall
    /\ titleResult' = Ok(generate_title(titleArgs))
    /\ UNCHANGED <<adVars, piVars, genVars, titleArgs, mapVars, enhVars, findVars, condVars, anVars, caVars, runVars, cgVars>>

InitTitle ==
    /\ adArgs = NoCall
    /\ adResult = NoCall
    /\ piArgs = NoCall
    /\ piResult = NoCall
    /\ genArgs = NoCall
    /\ genResult = NoCall
    /\ titleArgs \in TitleProductInfos
    /\ titleResult = NoCall
    /\ enhArgs = NoCall
    /\ enhRequests = 0
    /\ enhResponse = NoCall
    /\ enhResult = NoCall
    /\ findArgs = NoCall
    /\ findFiles = NoCall
    /\ findResult = NoCall
    /\ mapArgs = NoCall
    /\ mapResult = NoCall
    /\ condArgs = NoCall
    /\ condResult = NoCall
    /\ anArgs = NoCall
    /\ anPc = "start"
    /\ anPaths = NoCall
    /\ anCalls = 0
    /\ anResult = NoCall
    /\ caArgs = NoCall
    /\ caPc = "start"
    /\ caLog = <<>>
    /\ caUploads = <<>>
    /\ caResult = NoCall
    /\ runArgs = NoCall
    /\ runPc = "start"
    /\ runProductInfo = None
    /\ runCategory = None
    /\ runAd = None
    /\ runFailed = None
    /\ runConnects = 0
    /\ runCreateAdCalls = 0
    /\ brState = NoBrowser
    /\ runExit = None
    /\ cgArgs = NoCall
    /\ cgResult = NoCall

NextTitle == GenerateTitle

SpecTitle == InitTitle /\ [][NextTitle]_vars

\* _enhance_description with the simple backend: the template, no request
EnhanceSimple ==
    /\ enhArgs # NoCall
    /\ enhResult = NoCall
    /\ enhArgs.backend = "simple"
    /\ enhResult' = Ok(simple_description(enhArgs.product_info))
    /\ UNCHANGED <<adVars, piVars, genVars, titleVars, mapVars,
                   enhArgs, enhRequests, enhResponse, findVars, condVars, anVars, caVars, runVars, cgVars>>

\* _enhance_description with an API backend: the request is sent and comes to
\* one of the outcomes
EnhanceRequest ==
    /\ enhArgs # NoCall
    /\ enhResult = NoCall
    /\ enhArgs.backend # "simple"
    /\ enhResponse = NoCall
    /\ enhRequests' = enhRequests + 1
    /\ \E r \in BackendOutcomes(enhArgs.backend) : enhResponse' = r
    /\ UNCHANGED <<adVars, piVars, genVars, titleVars, mapVars,
                   enhArgs, enhResult, findVars, condVars, anVars, caVars, runVars, cgVars>>

\* _enhance_description returns the stripped text, or the handler's template
EnhanceReturn ==
    /\ enhResponse # NoCall
    /\ enhResult = NoCall
    /\ enhResult' = enhanced_or_fallback(enhArgs.product_info, enhResponse)
    /\ UNCHANGED <<adVars, piVars, genVars, titleVars, mapVars,
                   enhArgs, enhRequests, enhResponse, findVars, condVars, anVars, caVars, runVars, cgVars>>

InitEnhance ==
    /\ adArgs = NoCall
    /\ adResult = NoCall
    /\ piArgs = NoCall
    /\ piResult = NoCall
    /\ genArgs = NoCall
    /\ genResult = NoCall
    /\ titleArgs = NoCall
    /\ titleResult = NoCall
    /\ mapArgs = NoCall
    /\ mapResult = NoCall
    /\ enhArgs \in EnhanceInputs
    /\ enhRequests = 0
    /\ enhResponse = NoCall
    /\ enhResult = NoCall
    /\ findArgs = NoCall
    /\ findFiles = NoCall
    /\ findResult = NoCall
    /\ condArgs = NoCall
    /\ condResult = NoCall
    /\ anArgs = NoCall
    /\ anPc = "start"
    /\ anPaths = NoCall
    /\ anCalls = 0
    /\ anResult = NoCall
    /\ caArgs = NoCall
    /\ caPc = "start"
    /\ caLog = <<>>
    /\ caUploads = <<>>
    /\ caResult = NoCall
    /\ runArgs = NoCall
    /\ runPc = "start"
    /\ runProductInfo = None
    /\ runCategory = None
    /\ runAd = None
    /\ runFailed = None
    /\ runConnects = 0
    /\ runCreateAdCalls = 0
    /\ brState = NoBrowser
    /\ runExit = None
    /\ cgArgs = NoCall
    /\ cgResult = NoCall

NextEnhance == EnhanceSimple \/ EnhanceRequest \/ EnhanceReturn

SpecEnhance == InitEnhance /\ [][NextEnhance]_vars

\* analyzer._find_images(image_folder, max_images)
FindImages ==
    /\ findArgs # NoCall
    /\ findResult = NoCall
    /\ findResult' = find_images(findArgs).result
    /\ findFiles' = find_images(findArgs).files
    /\ UNCHANGED <<adVars, piVars, genVars, titleVars, mapVars, enhVars,
                   findArgs, condVars, anVars, caVars, runVars, cgVars>>

InitFind ==
    /\ adArgs = NoCall
    /\ adResult = NoCall
    /\ piArgs = NoCall
    /\ piResult = NoCall
    /\ genArgs = NoCall
    /\ genResult = NoCall
    /\ titleArgs = NoCall
    /\ titleResult = NoCall
    /\ mapArgs = NoCall
    /\ mapResult = NoCall
    /\ enhArgs = NoCall
    /\ enhRequests = 0
    /\ enhResponse = NoCall
    /\ enhResult = NoCall
    /\ findArgs \in FindInputs
    /\ findFiles = NoCall
    /\ findResult = NoCall
    /\ condArgs = NoCall
    /\ condResult = NoCall
    /\ anArgs = NoCall
    /\ anPc = "start"
    /\ anPaths = NoCall
    /\ anCalls = 0
    /\ anResult = NoCall
    /\ caArgs = NoCall
    /\ caPc = "start"
    /\ caLog = <<>>
    /\ caUploads = <<>>
    /\ caResult = NoCall
    /\ runArgs = NoCall
    /\ runPc = "start"
    /\ runProductInfo = None
    /\ runCategory = None
    /\ runAd = None
    /\ runFailed = None
    /\ runConnects = 0
    /\ runCreateAdCalls = 0
    /\ brState = NoBrowser
    /\ runExit = None
    /\ cgArgs = NoCall
    /\ cgResult = NoCall

NextFind == FindImages

SpecFind == InitFind /\ [][NextFind]_vars

\* analyzer._normalize_condition(condition)
NormalizeCondition ==
    /\ condArgs # NoCall
    /\ condResult = NoCall
    /\ condResult' = Ok(normalize_condition(condArgs))
    /\ UNCHANGED <<adVars, piVars, genVars, titleVars, mapVars, enhVars,
                   findVars, condArgs, anVars, caVars, runVars, cgVars>>

InitCondition ==
    /\ adArgs = NoCall
    /\ adResult = NoCall
    /\ piArgs = NoCall
    /\ piResult = NoCall
    /\ genArgs = NoCall
    /\ genResult = NoCall
    /\ titleArgs = NoCall
    /\ titleResult = NoCall
    /\ mapArgs = NoCall
    /\ mapResult = NoCall
    /\ enhArgs = NoCall
    /\ enhRequests = 0
    /\ enhResponse = NoCall
    /\ enhResult = NoCall
    /\ findArgs = NoCall
    /\ findFiles = NoCall
    /\ findResult = NoCall
    /\ condArgs \in ConditionAnswers
    /\ condResult = NoCall
    /\ anArgs = NoCall
    /\ anPc = "start"
    /\ anPaths = NoCall
    /\ anCalls = 0
    /\ anResult = NoCall
    /\ caArgs = NoCall
    /\ caPc = "start"
    /\ caLog = <<>>
    /\ caUploads = <<>>
    /\ caResult = NoCall
    /\ runArgs = NoCall
    /\ runPc = "start"
    /\ runProductInfo = None
    /\ runCategory = None
    /\ runAd = None
    /\ runFailed = None
    /\ runConnects = 0
    /\ runCreateAdCalls = 0
    /\ brState = NoBrowser
    /\ runExit = None
    /\ cgArgs = NoCall
    /\ cgResult = NoCall

NextCondition == NormalizeCondition

SpecCondition == InitCondition /\ [][NextCondition]_vars

\* analyze_images: image_paths = self._find_images(image_folder,
\* self.max_images); its ValueError is not caught
AnalyzeFind ==
    /\ anArgs # NoCall
    /\ anPc = "start"
    /\ LET r == find_images(anArgs.find).result
       IN  IF r.ok
           THEN /\ anPaths' = Some(r.val)
                /\ anPc' = "found"
                /\ UNCHANGED anResult
           ELSE /\ anResult' = r
                /\ anPc' = "done"
                /\ UNCHANGED anPaths
    /\ UNCHANGED <<adVars, piVars, genVars, titleVars, mapVars, enhVars,
                   findVars, condVars, anArgs, anCalls, caVars, runVars, cgVars>>

\* ClaudeVisionAnalyzer.analyze_images: the loop that encodes the images; an
\* image that cannot be encoded is logged and left out
AnalyzeEncode ==
    /\ anPc = "found"
    /\ anArgs.backend = "claude"
    /\ IF \A i \in 1..Len(anPaths.val) : anPaths.val[i] \in anArgs.unreadable
       THEN /\ anResult' = Raise("ValueError")
            /\ anPc' = "done"
       ELSE /\ anPc' = "encoded"
            /\ UNCHANGED anResult
    /\ UNCHANGED <<adVars, piVars, genVars, titleVars, mapVars, enhVars,
                   findVars, condVars, anArgs, anPaths, anCalls, caVars, runVars, cgVars>>

\* ClaudeVisionAnalyzer.analyze_images: the request and the reading of its
\* reply
AnalyzeRequest ==
    /\ anPc = "encoded"
    /\ anCalls' = anCalls + 1
    /\ anResult' = claude_request_and_parse(anArgs.reply, anPaths.val)
    /\ anPc' = "done"
    /\ UNCHANGED <<adVars, piVars, genVars, titleVars, mapVars, enhVars,
                   findVars, condVars, anArgs, anPaths, caVars, runVars, cgVars>>

\* BLIP2VisionAnalyzer.analyze_images: the prompts are put to the first image;
\* _analyze_single_image answers "" when the image cannot be opened
AnalyzeExtract ==
    /\ anPc = "found"
    /\ anArgs.backend = "blip2"
    /\ LET main_image == anPaths.val[1]
           opened == main_image \notin anArgs.unreadable
       IN  /\ anCalls' = IF opened THEN anCalls + PromptCount ELSE anCalls
           /\ anResult' = blip2_extract_and_build(
                              IF opened THEN anArgs.reply ELSE NoAnswers,
                              anPaths.val)
    /\ anPc' = "done"
    /\ UNCHANGED <<adVars, piVars, genVars, titleVars, mapVars, enhVars,
                   findVars, condVars, anArgs, anPaths, caVars, runVars, cgVars>>

InitAnalyze ==
    /\ adArgs = NoCall
    /\ adResult = NoCall
    /\ piArgs = NoCall
    /\ piResult = NoCall
    /\ genArgs = NoCall
    /\ genResult = NoCall
    /\ titleArgs = NoCall
    /\ titleResult = NoCall
    /\ mapArgs = NoCall
    /\ mapResult = NoCall
    /\ enhArgs = NoCall
    /\ enhRequests = 0
    /\ enhResponse = NoCall
    /\ enhResult = NoCall
    /\ findArgs = NoCall
    /\ findFiles = NoCall
    /\ findResult = NoCall
    /\ condArgs = NoCall
    /\ condResult = NoCall
    /\ anArgs \in AnalyzeInputs
    /\ anPc = "start"
    /\ anPaths = NoCall
    /\ anCalls = 0
    /\ anResult = NoCall
    /\ caArgs = NoCall
    /\ caPc = "start"
    /\ caLog = <<>>
    /\ caUploads = <<>>
    /\ caResult = NoCall
    /\ runArgs = NoCall
    /\ runPc = "start"
    /\ runProductInfo = None
    /\ runCategory = None
    /\ runAd = None
    /\ runFailed = None
    /\ runConnects = 0
    /\ runCreateAdCalls = 0
    /\ brState = NoBrowser
    /\ runExit = None
    /\ cgArgs = NoCall
    /\ cgResult = NoCall

NextAnalyze == AnalyzeFind \/ AnalyzeEncode \/ AnalyzeRequest \/ AnalyzeExtract

SpecAnalyze == InitAnalyze /\ [][NextAnalyze]_vars

\* create_ad: navigate_to_post_ad (page.goto may raise) and
\* check_login_status, whose errors are caught
CaNavigate ==
    /\ caArgs # NoCall
    /\ caPc = "start"
    /\ \E ok \in BOOLEAN :
          IF ok
          THEN /\ caLog' = Append(caLog, "navigate")
               /\ caPc' = "navigated"
               /\ UNCHANGED caResult
          ELSE /\ caResult' = Raise("PlaywrightError")
               /\ caPc' = "done"
               /\ UNCHANGED caLog
    /\ UNCHANGED <<adVars, piVars, genVars, titleVars, mapVars, enhVars,
                   findVars, condVars, anVars, caArgs, caUploads, runVars, cgVars>>

\* fill_ad_form, steps 1 to 6: title, condition, shipping method, price, VB,
\* description; an error is logged and raised again
CaFillFields ==
    /\ caPc = "navigated"
    /\ \E ok \in BOOLEAN :
          IF ok
          THEN /\ caLog' = Append(caLog, "fill_fields")
               /\ caPc' = "fields"
               /\ UNCHANGED caResult
          ELSE /\ caResult' = Raise("PlaywrightError")
               /\ caPc' = "done"
               /\ UNCHANGED caLog
    /\ UNCHANGED <<adVars, piVars, genVars, titleVars, mapVars, enhVars,
                   findVars, condVars, anVars, caArgs, caUploads, runVars, cgVars>>

\* fill_ad_form, step 7: upload_images(image_paths) if image_paths; the
\* file input may be missing, and set_input_files may fail
CaUpload ==
    /\ caPc = "fields"
    /\ LET uploadable == uploadable_images(caArgs.image_paths)
       IN  IF caArgs.image_paths = <<>> \/ uploadable = <<>>
           THEN /\ caPc' = "filled"
                /\ UNCHANGED <<caLog, caUploads, caResult, runVars, cgVars>>
           ELSE \E outcome \in {"no_input", "rejected", "uploaded"} :
                   /\ IF outcome = "no_input"
                      THEN UNCHANGED <<caLog, caUploads, runVars, cgVars>>
                      ELSE /\ caLog' = Append(caLog, "set_input_files")
                           /\ caUploads' =
                                  Append(caUploads,
                                         [i \in 1..Len(uploadable) |->
                                             Resolve(uploadable[i])])
                   /\ IF outcome = "uploaded"
                      THEN caPc' = "filled" /\ UNCHANGED caResult
                      ELSE caPc' = "done" /\ caResult' = Raise("PlaywrightError")
    /\ UNCHANGED <<adVars, piVars, genVars, titleVars, mapVars, enhVars,
                   findVars, condVars, anVars, caArgs, runVars, cgVars>>

\* create_ad: self.actions.scroll_randomly()
CaScroll ==
    /\ caPc = "filled"
    /\ \E ok \in BOOLEAN :
          IF ok
          THEN /\ caLog' = Append(caLog, "scroll")
               /\ caPc' = "scrolled"
               /\ UNCHANGED caResult
          ELSE /\ caResult' = Raise("PlaywrightError")
               /\ caPc' = "done"
               /\ UNCHANGED caLog
    /\ UNCHANGED <<adVars, piVars, genVars, titleVars, mapVars, enhVars,
                   findVars, condVars, anVars, caArgs, caUploads, runVars, cgVars>>

\* save_as_draft up to the decision, the same in both branches of
\* `if save_as_draft:`; without confirmation create_ad returns keep_open = True
CaConfirm ==
    /\ caPc = "scrolled"
    /\ IF ~caArgs.auto_confirm /\ caArgs.typed = None
       THEN caResult' = Raise("EOFError") /\ caPc' = "done"
       ELSE IF save_confirmed(caArgs.auto_confirm,
                              IF caArgs.typed = None THEN <<>> ELSE caArgs.typed.val)
       THEN caPc' = "confirmed" /\ UNCHANGED caResult
       ELSE caResult' = Ok(TRUE) /\ caPc' = "done"
    /\ UNCHANGED <<adVars, piVars, genVars, titleVars, mapVars, enhVars,
                   findVars, condVars, anVars, caArgs, caLog, caUploads, runVars, cgVars>>

\* save_as_draft: the 'Entwurf speichern' button is waited for and clicked;
\* create_ad returns False
CaClickDraft ==
    /\ caPc = "confirmed"
    /\ \E found \in BOOLEAN :
          IF found
          THEN /\ caLog' = Append(caLog, "click_draft")
               /\ caResult' = Ok(FALSE)
          ELSE /\ caResult' = Raise("PlaywrightError")
               /\ UNCHANGED caLog
    /\ caPc' = "done"
    /\ UNCHANGED <<adVars, piVars, genVars, titleVars, mapVars, enhVars,
                   findVars, condVars, anVars, caArgs, caUploads, runVars, cgVars>>

CreateAdSteps ==
    \/ CaNavigate \/ CaFillFields \/ CaUpload \/ CaScroll \/ CaConfirm
    \/ CaClickDraft

InitCreateAd ==
    /\ adArgs = NoCall
    /\ adResult = NoCall
    /\ piArgs = NoCall
    /\ piResult = NoCall
    /\ genArgs = NoCall
    /\ genResult = NoCall
    /\ titleArgs = NoCall
    /\ titleResult = NoCall
    /\ mapArgs = NoCall
    /\ mapResult = NoCall
    /\ enhArgs = NoCall
    /\ enhRequests = 0
    /\ enhResponse = NoCall
    /\ enhResult = NoCall
    /\ findArgs = NoCall
    /\ findFiles = NoCall
    /\ findResult = NoCall
    /\ condArgs = NoCall
    /\ condResult = NoCall
    /\ anArgs = NoCall
    /\ anPc = "start"
    /\ anPaths = NoCall
    /\ anCalls = 0
    /\ anResult = NoCall
    /\ caArgs \in CreateAdInputs
    /\ caPc = "start"
    /\ caLog = <<>>
    /\ caUploads = <<>>
    /\ caResult = NoCall
    /\ runArgs = NoCall
    /\ runPc = "start"
    /\ runProductInfo = None
    /\ runCategory = None
    /\ runAd = None
    /\ runFailed = None
    /\ runConnects = 0
    /\ runCreateAdCalls = 0
    /\ brState = NoBrowser
    /\ runExit = None
    /\ cgArgs = NoCall
    /\ cgResult = NoCall

NextCreateAd ==
    \/ CaNavigate \/ CaFillFields \/ CaUpload \/ CaScroll \/ CaConfirm
    \/ CaClickDraft

SpecCreateAd == InitCreateAd /\ [][NextCreateAd]_vars

\* main_async, "Initialize components": BrowserConfig(**config['browser']),
\* DelaysConfig(**config['delays']), ProductAnalyzer(vision_settings=...),
\* ContentGenerator(...), CategoryMapper(categories_path).  Each constructor
\* may raise; with the ProductAnalyzer of src/vision/analyzer.py, whose
\* __init__ takes (api_key, model, vision_config), the keyword vision_settings
\* raises TypeError.  The step is left open so that the stages behind it are
\* covered as well.
RunInitialise ==
    /\ runArgs # NoCall
    /\ runPc = "start"
    /\ \E outcome \in {"TypeError", "ValueError", "initialised"} :
          /\ runPc' = after_stage(outcome = "initialised", "analyze")
          /\ runFailed' = IF outcome = "initialised" THEN runFailed
                          ELSE Some("initialisation")
          /\ brState' = [NoBrowser EXCEPT
                            !.user_context =
                                IF runArgs.has_context THEN "open" ELSE "absent"]
    /\ UNCHANGED <<adVars, piVars, genVars, titleVars, mapVars, enhVars,
                   findVars, condVars, anVars, caVars, runArgs, runProductInfo, runCategory, runAd,
                   runConnects, runCreateAdCalls, runExit, cgVars>>

\* product_info = await analyzer.analyze_images(image_folder)
RunAnalyze ==
    /\ runPc = "analyze"
    /\ runPc' = after_stage(runArgs.analysis.ok, "map")
    /\ IF runArgs.analysis.ok
       THEN runProductInfo' = Some(runArgs.analysis.val) /\ UNCHANGED runFailed
       ELSE runFailed' = Some("analysis") /\ UNCHANGED runProductInfo
    /\ UNCHANGED <<adVars, piVars, genVars, titleVars, mapVars, enhVars,
                   findVars, condVars, anVars, caVars, runArgs, runCategory, runAd, runConnects,
                   runCreateAdCalls, brState, runExit, cgVars>>

\* category, subcategory = category_mapper.map_category(product_info.name,
\*     product_info.description, product_info.category)
RunMapCategory ==
    /\ runPc = "map"
    /\ LET mapped == map_category(
                         [tax |-> runArgs.tax,
                          product_name |-> runProductInfo.val.name,
                          product_description |-> runProductInfo.val.description,
                          detected_category |-> runProductInfo.val.category])
       IN  /\ runPc' = after_stage(mapped.ok, "generate")
           /\ IF mapped.ok
              THEN runCategory' = Some(mapped.val) /\ UNCHANGED runFailed
              ELSE runFailed' = Some("mapping") /\ UNCHANGED runCategory
    /\ UNCHANGED <<adVars, piVars, genVars, titleVars, mapVars, enhVars,
                   findVars, condVars, anVars, caVars, runArgs, runProductInfo, runAd, runConnects,
                   runCreateAdCalls, brState, runExit, cgVars>>

\* ad_content = generator.generate_ad_content(product_info, postal_code,
\*     category, subcategory, price_override)
RunGenerate ==
    /\ runPc = "generate"
    /\ LET generated == generate_ad_content(
                            [product_info |-> runProductInfo.val,
                             postal_code |-> runArgs.postal_code,
                             category |-> Some(runCategory.val[1]),
                             subcategory |-> runCategory.val[2],
                             price_override |-> runArgs.price_override])
       IN  /\ runPc' = after_stage(generated.ok, "connect")
           /\ IF generated.ok
              THEN runAd' = Some(generated.val) /\ UNCHANGED runFailed
              ELSE runFailed' = Some("generation") /\ UNCHANGED runAd
    /\ UNCHANGED <<adVars, piVars, genVars, titleVars, mapVars, enhVars,
                   findVars, condVars, anVars, caVars, runArgs, runProductInfo, runCategory,
                   runConnects, runCreateAdCalls, brState, runExit, cgVars>>

\* browser_controller = BrowserController(browser_config);
\* page = await browser_controller.connect(): on an exception connect calls
\* self.close() and raises again
RunConnect ==
    /\ runPc = "connect"
    /\ runConnects' = runConnects + 1
    /\ \E outcome \in connect_outcomes(brState) :
       \E page_close_ok \in BOOLEAN :
          IF outcome = "connected"
          THEN /\ page_close_ok
               /\ brState' = connect_progress(brState, outcome)
               /\ runPc' = "create_ad"
               /\ UNCHANGED runFailed
          ELSE /\ outcome = "no_timeout" \/ page_close_ok
               /\ brState' = close(connect_progress(brState, outcome),
                                   page_close_ok)
               /\ runPc' = "handle_error"
               /\ runFailed' = Some("connect")
    /\ UNCHANGED <<adVars, piVars, genVars, titleVars, mapVars, enhVars,
                   findVars, condVars, anVars, caVars, runArgs, runProductInfo, runCategory, runAd,
                   runCreateAdCalls, runExit, cgVars>>

\* automator = KleinanzeigenAutomator(page, base_url);
\* await automator.create_ad(ad_content, product_info.image_paths,
\*                           save_as_draft=config['kleinanzeigen']['draft_mode'])
RunCreateAd ==
    /\ runPc = "create_ad"
    /\ caArgs = NoCall
    /\ caArgs' = [ad_content |-> runAd.val,
                  image_paths |-> runProductInfo.val.image_paths,
                  save_as_draft |-> runArgs.draft_mode,
                  auto_confirm |-> FALSE,
                  typed |-> runArgs.typed]
    /\ runCreateAdCalls' = runCreateAdCalls + 1
    /\ runPc' = "in_create_ad"
    /\ UNCHANGED <<adVars, piVars, genVars, titleVars, mapVars, enhVars,
                   findVars, condVars, anVars, caPc, caLog, caUploads, caResult, runArgs,
                   runProductInfo, runCategory, runAd, runFailed, runConnects,
                   brState, runExit, cgVars>>

\* create_ad returns (its value is not used) or raises
RunCreateAdReturn ==
    /\ runPc = "in_create_ad"
    /\ caPc = "done"
    /\ IF caResult.ok
       THEN runPc' = "screenshot" /\ UNCHANGED runFailed
       ELSE runPc' = "handle_error" /\ runFailed' = Some("create_ad")
    /\ UNCHANGED <<adVars, piVars, genVars, titleVars, mapVars, enhVars,
                   findVars, condVars, anVars, caVars, runArgs, runProductInfo, runCategory, runAd,
                   runConnects, runCreateAdCalls, brState, runExit, cgVars>>

\* await browser_controller.take_screenshot("success.png", screenshot_dir):
\* screenshot_dir.mkdir may raise, an exception of page.screenshot is logged
RunScreenshot ==
    /\ runPc = "screenshot"
    /\ \E mkdir_ok \in BOOLEAN :
          IF mkdir_ok
          THEN runPc' = "close" /\ UNCHANGED runFailed
          ELSE runPc' = "handle_error" /\ runFailed' = Some("screenshot")
    /\ UNCHANGED <<adVars, piVars, genVars, titleVars, mapVars, enhVars,
                   findVars, condVars, anVars, caVars, runArgs, runProductInfo, runCategory, runAd,
                   runConnects, runCreateAdCalls, brState, runExit, cgVars>>

\* except Exception: await browser_controller.handle_error(e, screenshot_dir);
\* raise.  handle_error takes a screenshot if there is a page
RunHandleError ==
    /\ runPc = "handle_error"
    /\ runPc' = "close"
    /\ UNCHANGED <<adVars, piVars, genVars, titleVars, mapVars, enhVars,
                   findVars, condVars, anVars, caVars, runArgs, runProductInfo, runCategory, runAd,
                   runFailed, runConnects, runCreateAdCalls, brState, runExit, cgVars>>

\* finally: await browser_controller.close(); after it the exception, if
\* there is one, goes on to the outer handler
RunClose ==
    /\ runPc = "close"
    /\ \E page_close_ok \in BOOLEAN :
          /\ brState.page = "none" => page_close_ok
          /\ brState' = close(brState, page_close_ok)
    /\ runPc' = after_stage(runFailed = None, "returned")
    /\ UNCHANGED <<adVars, piVars, genVars, titleVars, mapVars, enhVars,
                   findVars, condVars, anVars, caVars, runArgs, runProductInfo, runCategory, runAd,
                   runFailed, runConnects, runCreateAdCalls, runExit, cgVars>>

\* except Exception: logger.error("Fatal error"); sys.exit(1)
RunExit ==
    /\ runPc = "fatal"
    /\ runExit' = Some(1)
    /\ runPc' = "exited"
    /\ UNCHANGED <<adVars, piVars, genVars, titleVars, mapVars, enhVars,
                   findVars, condVars, anVars, caVars, runArgs, runProductInfo, runCategory, runAd,
                   runFailed, runConnects, runCreateAdCalls, brState, cgVars>>

InitMain ==
    /\ adArgs = NoCall
    /\ adResult = NoCall
    /\ piArgs = NoCall
    /\ piResult = NoCall
    /\ genArgs = NoCall
    /\ genResult = NoCall
    /\ titleArgs = NoCall
    /\ titleResult = NoCall
    /\ mapArgs = NoCall
    /\ mapResult = NoCall
    /\ enhArgs = NoCall
    /\ enhRequests = 0
    /\ enhResponse = NoCall
    /\ enhResult = NoCall
    /\ findArgs = NoCall
    /\ findFiles = NoCall
    /\ findResult = NoCall
    /\ condArgs = NoCall
    /\ condResult = NoCall
    /\ anArgs = NoCall
    /\ anPc = "start"
    /\ anPaths = NoCall
    /\ anCalls = 0
    /\ anResult = NoCall
    /\ caArgs = NoCall
    /\ caPc = "start"
    /\ caLog = <<>>
    /\ caUploads = <<>>
    /\ caResult = NoCall
    /\ runArgs \in RunInputs
    /\ runPc = "start"
    /\ runProductInfo = None
    /\ runCategory = None
    /\ runAd = None
    /\ runFailed = None
    /\ runConnects = 0
    /\ runCreateAdCalls = 0
    /\ brState = NoBrowser
    /\ runExit = None
    /\ cgArgs = NoCall
    /\ cgResult = NoCall

NextMain ==
    \/ RunInitialise \/ RunAnalyze \/ RunMapCategory \/ RunGenerate
    \/ RunConnect \/ RunCreateAd
    \/ CaNavigate \/ CaFillFields \/ CaUpload \/ CaScroll \/ CaConfirm
    \/ CaClickDraft
    \/ RunCreateAdReturn \/ RunScreenshot \/ RunHandleError \/ RunClose
    \/ RunExit

SpecMain == InitMain /\ [][NextMain]_vars

\* ContentGenerator(backend=..., api_key=..., model=...)
ConstructGenerator ==
    /\ cgArgs # NoCall
    /\ cgResult = NoCall
    /\ cgResult' = ContentGenerator_init(cgArgs)
    /\ UNCHANGED <<adVars, piVars, genVars, titleVars, mapVars, enhVars,
                   findVars, condVars, anVars, caVars, runVars, cgArgs>>

InitConstructGenerator ==
    /\ adArgs = NoCall
    /\ adResult = NoCall
    /\ piArgs = NoCall
    /\ piResult = NoCall
    /\ genArgs = NoCall
    /\ genResult = NoCall
    /\ titleArgs = NoCall
    /\ titleResult = NoCall
    /\ mapArgs = NoCall
    /\ mapResult = NoCall
    /\ enhArgs = NoCall
    /\ enhRequests = 0
    /\ enhResponse = NoCall
    /\ enhResult = NoCall
    /\ findArgs = NoCall
    /\ findFiles = NoCall
    /\ findResult = NoCall
    /\ condArgs = NoCall
    /\ condResult = NoCall
    /\ anArgs = NoCall
    /\ anPc = "start"
    /\ anPaths = NoCall
    /\ anCalls = 0
    /\ anResult = NoCall
    /\ caArgs = NoCall
    /\ caPc = "start"
    /\ caLog = <<>>
    /\ caUploads = <<>>
    /\ caResult = NoCall
    /\ runArgs = NoCall
    /\ runPc = "start"
    /\ runProductInfo = None
    /\ runCategory = None
    /\ runAd = None
    /\ runFailed = None
    /\ runConnects = 0
    /\ runCreateAdCalls = 0
    /\ brState = NoBrowser
    /\ runExit = None
    /\ cgArgs \in ConstructGeneratorInputs
    /\ cgResult = NoCall

NextConstructGenerator == ConstructGenerator

SpecConstructGenerator == InitConstructGenerator /\ [][NextConstructGenerator]_vars

\* CategoryMapper(categories_file).map_category(name, description, hint)
MapCategory ==
    /\ mapArgs # NoCall
    /\ mapResult = NoCall
    /\ mapResult' = map_category(mapArgs)
    /\ UNCHANGED <<adVars, piVars, genVars, titleVars, mapArgs, enhVars, findVars, condVars, anVars, caVars, runVars, cgVars>>

InitMapper ==
    /\ adArgs = NoCall
    /\ adResult = NoCall
    /\ genArgs = NoCall
    /\ genResult = NoCall
    /\ mapArgs \in MapInputs
    /\ mapResult = NoCall
    /\ piArgs = NoCall
    /\ piResult = NoCall
    /\ titleArgs = NoCall
    /\ titleResult = NoCall
    /\ enhArgs = NoCall
    /\ enhRequests = 0
    /\ enhResponse = NoCall
    /\ enhResult = NoCall
    /\ findArgs = NoCall
    /\ findFiles = NoCall
    /\ findResult = NoCall
    /\ condArgs = NoCall
    /\ condResult = NoCall
    /\ anArgs = NoCall
    /\ anPc = "start"
    /\ anPaths = NoCall
    /\ anCalls = 0
    /\ anResult = NoCall
    /\ caArgs = NoCall
    /\ caPc = "start"
    /\ caLog = <<>>
    /\ caUploads = <<>>
    /\ caResult = NoCall
    /\ runArgs = NoCall
    /\ runPc = "start"
    /\ runProductInfo = None
    /\ runCategory = None
    /\ runAd = None
    /\ runFailed = None
    /\ runConnects = 0
    /\ runCreateAdCalls = 0
    /\ brState = NoBrowser
    /\ runExit = None
    /\ cgArgs = NoCall
    /\ cgResult = NoCall

NextMapper == MapCategory

SpecMapper == InitMapper /\ [][NextMapper]_vars

\* every operation, from every input
Init == InitModels \/ InitGenerator \/ InitTitle \/ InitEnhance \/ InitFind \/ InitCondition
    \/ InitAnalyze \/ InitCreateAd \/ InitMain \/ InitConstructGenerator
    \/ InitMapper

Next ==
    \/ ConstructAdContent \/ ConstructProductInfo
    \/ GenerateAdContent \/ GenerateTitle
    \/ EnhanceSimple \/ EnhanceRequest \/ EnhanceReturn
    \/ FindImages \/ NormalizeCondition
    \/ AnalyzeFind \/ AnalyzeEncode \/ AnalyzeRequest \/ AnalyzeExtract
    \/ CreateAdSteps \/ MapCategory
    \/ RunInitialise \/ RunAnalyze \/ RunMapCategory \/ RunGenerate
    \/ RunConnect \/ RunCreateAd \/ RunCreateAdReturn \/ RunScreenshot
    \/ RunHandleError \/ RunClose \/ RunExit
    \/ ConstructGenerator

Spec == Init /\ [][Next]_vars

-----------------------------------------------------------------------------
(* Properties *)

\* exactly 5 ASCII digits
FiveAsciiDigits(s) ==
    Len(s) = 5 /\ \A i \in 1..Len(s) : s[i] \in AsciiDigits

\* the fields other than the title satisfy the record's invariants
OtherFieldsValid(kw) ==
    /\ kw.price >= 0
    /\ FiveAsciiDigits(kw.postal_code)
    /\ kw.category # <<>>
    /\ kw.shipping_type \in {sPICKUP, sSHIPPING, sBOTH}

\* C1: constructing an AdContent fails with a validation error for every
\* postal_code that is not exactly 5 ASCII digits.
C1_NonAsciiFiveDigitPostalCodeRejected ==
    (adResult # NoCall /\ ~FiveAsciiDigits(adArgs.postal_code)) => ~adResult.ok

\* C2: with all other fields valid, AdContent construction fails for every
\* title longer than 65 characters and succeeds, keeping the title as given,
\* for every title of 0..65 characters; no record holds a title other than
\* the one passed in.
C2_TitleLengthValidated ==
    adResult # NoCall =>
        /\ Len(adArgs.title) > 65 => ~adResult.ok
        /\ (Len(adArgs.title) <= 65 /\ OtherFieldsValid(adArgs)) => adResult.ok
        /\ adResult.ok => adResult.val.title = adArgs.title

\* C2 witness: a title of exactly 65 characters was accepted unchanged.
C2_Witness ==
    /\ adResult # NoCall
    /\ OtherFieldsValid(adArgs)
    /\ Len(adArgs.title) = 65
    /\ adResult.ok
    /\ adResult.val.title = adArgs.title

\* the price the record is to carry: the override if provided, else the
\* suggested price if present, else the default 10.0
ClaimedPrice(a) ==
    IF a.price_override # None THEN a.price_override.val
    ELSE IF a.product_info.suggested_price # None
         THEN a.product_info.suggested_price.val
         ELSE 10

\* the category the record is to carry: the vision-sourced category if
\* present and non-empty, else the category argument, else "Sonstiges"
ClaimedCategory(a) ==
    IF TruthyStr(a.product_info.category) THEN a.product_info.category.val
    ELSE IF TruthyStr(a.category) THEN a.category.val
    ELSE sSonstiges

\* C3: generate_ad_content either raises a validation error or returns a
\* record with len(title) <= 65, price >= 0 and a postal_code of exactly 5
\* ASCII digits; it raises when the postal_code is not 5 digits or the
\* resolved price is negative.
C3_GenerateReturnsOnlyValidRecords ==
    genResult # NoCall =>
        /\ genResult.ok =>
              /\ Len(genResult.val.title) <= 65
              /\ genResult.val.price >= 0
              /\ FiveAsciiDigits(genResult.val.postal_code)
        /\ ~FiveAsciiDigits(genArgs.postal_code) => ~genResult.ok
        /\ ClaimedPrice(genArgs) < 0 => ~genResult.ok

\* C4: the price of the returned record is price_override whenever it is
\* provided, otherwise suggested_price whenever it is present (0.0 included),
\* otherwise 10.0.
C4_PriceResolution ==
    (genResult # NoCall /\ genResult.ok) =>
        genResult.val.price = ClaimedPrice(genArgs)

\* C5: the category of the returned record is product_info.category whenever
\* that is present and non-empty, only otherwise the category argument, and
\* only if both are absent or empty "Sonstiges".
C5_VisionCategoryPreferred ==
    (genResult # NoCall /\ genResult.ok) =>
        genResult.val.category = ClaimedCategory(genArgs)

\* name + " " + description
CombinedText(a) == a.product_name \o <<" ">> \o a.product_description

\* sub occurs in text, ignoring letter case on both sides
OccursIgnoringCase(text, sub) == Contains(Lower(text), Lower(sub))

\* how many of the keywords occur in the text ignoring case
CountIgnoringCase(keywords, text) ==
    Cardinality({j \in 1..Len(keywords) : OccursIgnoringCase(text, keywords[j])})

\* positions of the taxonomy categories whose name the hint contains, or is
\* contained in, ignoring case; empty when no hint is supplied
HintMatchSet(a) ==
    IF a.detected_category = None THEN {}
    ELSE {i \in 1..Len(a.tax.categories) :
             \/ OccursIgnoringCase(a.detected_category.val, a.tax.categories[i].key)
             \/ OccursIgnoringCase(a.tax.categories[i].key, a.detected_category.val)}

Least(S) == CHOOSE i \in S : \A j \in S : i <= j

FirstHintMatch(a) == a.tax.categories[Least(HintMatchSet(a))].key

\* what keyword scoring with the sentinel fallback yields (steps 2 and 3)
KeywordDecision(a) ==
    LET k == match_keywords(a.tax, CombinedText(a))
    IN  IF TruthyStr(k) THEN k.val ELSE sSonstiges

\* the highest case-insensitive keyword count over the keywords section
BestCount(a) ==
    LET counts == {CountIgnoringCase(a.tax.keywords[i].val, CombinedText(a)) :
                      i \in 1..Len(a.tax.keywords)} \cup {0}
    IN  CHOOSE m \in counts : \A n \in counts : n <= m

\* the first category, in iteration order, that reaches the highest count
BestByCount(a) ==
    a.tax.keywords[Least({i \in 1..Len(a.tax.keywords) :
        CountIgnoringCase(a.tax.keywords[i].val, CombinedText(a)) = BestCount(a)})].key

\* C6: the category returned by map_category is a key of the taxonomy's
\* categories section or the sentinel "Sonstiges", and is never empty.
C6_CategoryInTaxonomyOrSentinel ==
    mapResult # NoCall =>
        /\ mapResult.ok
        /\ mapResult.val[1] \in Keys(mapArgs.tax.categories) \cup {sSonstiges}
        /\ mapResult.val[1] # <<>>

\* C7 as stated: whenever a hint is supplied and contains, or is contained
\* in, a taxonomy category name (ignoring case), map_category returns the
\* first such category; when the supplied hint matches no category name the
\* category is the one keyword scoring yields.
C7_SuppliedHintOverridesKeywords ==
    (mapResult # NoCall /\ mapArgs.detected_category # None) =>
        /\ HintMatchSet(mapArgs) # {} =>
              (mapResult.ok /\ mapResult.val[1] = FirstHintMatch(mapArgs))
        /\ HintMatchSet(mapArgs) = {} =>
              (mapResult.ok /\ mapResult.val[1] = KeywordDecision(mapArgs))

\* C7 amended: whenever a non-empty hint is supplied and the first taxonomy
\* category name it contains, or is contained in, (ignoring case) is not the
\* empty name, map_category returns that category, whatever the keywords in
\* name and description; when the hint is empty, matches no category name,
\* or its first match is the empty name, the category is the one keyword
\* scoring yields.
C7_NonEmptyHintOverridesKeywords ==
    (mapResult # NoCall /\ mapArgs.detected_category # None) =>
        LET decisive == /\ mapArgs.detected_category.val # <<>>
                        /\ HintMatchSet(mapArgs) # {}
                        /\ FirstHintMatch(mapArgs) # <<>>
        IN  /\ mapResult.ok
            /\ decisive => mapResult.val[1] = FirstHintMatch(mapArgs)
            /\ ~decisive => mapResult.val[1] = KeywordDecision(mapArgs)

\* C7 witness: the hint matches several category names, keyword scoring
\* alone yields another category, and the first hint match was returned.
C7_Witness ==
    /\ mapResult # NoCall
    /\ mapArgs.detected_category # None
    /\ mapArgs.detected_category.val # <<>>
    /\ Cardinality(HintMatchSet(mapArgs)) >= 2
    /\ KeywordDecision(mapArgs) \notin {FirstHintMatch(mapArgs), sSonstiges}
    /\ mapResult.ok
    /\ mapResult.val[1] = FirstHintMatch(mapArgs)

\* no hint is supplied, or the supplied hint matches no category name
NoMatchingHint(a) == HintMatchSet(a) = {}

\* C8: without a matching hint, map_category returns the category whose
\* keyword list has the highest number of keywords occurring in
\* name + " " + description (ignoring case), the first in iteration order
\* among those sharing the highest non-zero count.
C8_HighestKeywordCountWins ==
    (mapResult # NoCall /\ NoMatchingHint(mapArgs) /\ BestCount(mapArgs) > 0) =>
        (mapResult.ok /\ mapResult.val[1] = BestByCount(mapArgs))

\* C9: a taxonomy keyword counts as a match whenever it occurs in the
\* combined text ignoring letter case, whatever the case of the keyword in
\* the taxonomy file and of the product text.
C9_KeywordMatchIgnoresCase ==
    mapResult # NoCall =>
        \A i \in 1..Len(mapArgs.tax.keywords) :
            \A j \in 1..Len(mapArgs.tax.keywords[i].val) :
                LET keyword == mapArgs.tax.keywords[i].val[j]
                IN  keyword_in_text(keyword, Lower(CombinedText(mapArgs)))
                        <=> OccursIgnoringCase(CombinedText(mapArgs), keyword)

\* C10: when name + " " + description contains no keyword (ignoring case)
\* and there is no matching hint, map_category raises nothing and returns
\* "Sonstiges", whether or not the categories section has an entry for it.
C10_UnmatchedFallsBackToSonstiges ==
    (/\ mapResult # NoCall
     /\ NoMatchingHint(mapArgs)
     /\ BestCount(mapArgs) = 0) =>
        (mapResult.ok /\ mapResult.val[1] = sSonstiges)

\* C10 witness: a non-matching hint, no keyword in the text, a taxonomy
\* without an entry for "Sonstiges": the call returned ("Sonstiges", None).
C10_Witness ==
    /\ mapResult # NoCall
    /\ mapArgs.detected_category # None
    /\ NoMatchingHint(mapArgs)
    /\ BestCount(mapArgs) = 0
    /\ ~HasKey(mapArgs.tax.categories, sSonstiges)
    /\ mapResult = Ok(<<sSonstiges, None>>)

\* positions of the subcategories whose name or one of whose example items
\* occurs in the text, ignoring case
SubcategoryMatchSet(subcategories, text) ==
    {i \in 1..Len(subcategories) :
        \/ OccursIgnoringCase(text, subcategories[i].key)
        \/ \E j \in 1..Len(subcategories[i].val) :
              OccursIgnoringCase(text, subcategories[i].val[j])}

C12_LaptopMapsToComputerSubcategory ==
    (/\ mapResult # NoCall
     /\ mapArgs.tax = TaxFixture
     /\ mapArgs.product_name = kw_Laptop
     /\ mapArgs.product_description = sDellLaptop15Zoll
     /\ mapArgs.detected_category = None) =>
        (mapResult.ok /\ mapResult.val[2] = Some(sComputerZubehoer))

\* the last n characters of s
Suffix(s, n) == SubSeq(s, Len(s) - n + 1, Len(s))

\* what the title is to be, given the join of the components
TitleOfJoin(title, join) ==
    IF Len(join) > 65
    THEN /\ Len(title) = 65
         /\ Suffix(title, 3) = <<".", ".", ".">>
         /\ Prefix(title, 62) = Prefix(join, 62)
    ELSE title = join

\* C13 as stated: _generate_title joins brand (if present), name and color
\* (if present) with single spaces; a join longer than 65 characters yields
\* 65 characters ending in "..." whose first 62 are those of the join, a
\* join of at most 65 characters is returned unchanged.
C13_TitleJoinsPresentComponents ==
    titleResult # NoCall =>
        LET pi == titleArgs
            join == Join((IF pi.brand # None THEN <<pi.brand.val>> ELSE <<>>)
                         \o <<pi.name>>
                         \o (IF pi.color # None THEN <<pi.color.val>> ELSE <<>>),
                         <<" ">>)
        IN  titleResult.ok /\ TitleOfJoin(titleResult.val, join)

\* C13 amended: the same, with brand and color joined only if present and
\* non-empty.
C13_TitleJoinsNonEmptyComponents ==
    titleResult # NoCall =>
        LET pi == titleArgs
            join == Join((IF pi.brand # None /\ pi.brand.val # <<>>
                          THEN <<pi.brand.val>> ELSE <<>>)
                         \o <<pi.name>>
                         \o (IF pi.color # None /\ pi.color.val # <<>>
                             THEN <<pi.color.val>> ELSE <<>>),
                         <<" ">>)
        IN  titleResult.ok /\ TitleOfJoin(titleResult.val, join)

\* C13 witness: brand, name and color join to more than 65 characters and
\* the title is 65 characters long, starting with the brand and ending "...".
C13_Witness ==
    /\ titleResult # NoCall
    /\ titleArgs.brand = Some(sDell)
    /\ titleArgs.color = Some(sRot)
    /\ Len(sDell) + 1 + Len(titleArgs.name) + 1 + Len(sRot) > 65
    /\ titleResult.ok
    /\ Len(titleResult.val) = 65
    /\ Prefix(titleResult.val, Len(sDell) + 1) = sDell \o <<" ">>
    /\ Suffix(titleResult.val, 3) = <<".", ".", ".">>

\* the request or the reading of its response failed with an error
BackendFailed ==
    /\ enhResponse # NoCall
    /\ enhResponse.kind \in {"call_raises", "read_raises"}
    /\ enhResponse.error \in ExceptionClasses

C15_DescriptionIsTemplateDescription ==
    (genResult # NoCall /\ genResult.ok) =>
        genResult.val.description = simple_description(genArgs.product_info)

\* C17: generate_ad_content copies its subcategory argument,
\* product_info.condition and its postal_code argument unchanged into the
\* returned record, sets shipping_type to PICKUP, and leaves the ProductInfo
\* it was given as it was.
C17_PassThroughAndFrame ==
    /\ [](genResult # NoCall /\ genResult.ok =>
            /\ genResult.val.subcategory = genArgs.subcategory
            /\ genResult.val.condition = genArgs.product_info.condition
            /\ genResult.val.postal_code = genArgs.postal_code
            /\ genResult.val.shipping_type = sPICKUP)
    /\ [][genArgs # NoCall => genArgs'.product_info = genArgs.product_info]_vars

\* C17 witness: a record was returned for a call with a subcategory argument
\* and a condition other than the default.
C17_Witness ==
    /\ genResult # NoCall
    /\ genResult.ok
    /\ genArgs.subcategory = Some(sAudioHiFi)
    /\ genArgs.product_info.condition = sNeu
    /\ genResult.val.subcategory = Some(sAudioHiFi)
    /\ genResult.val.condition = sNeu
    /\ genResult.val.postal_code = s12345
    /\ genResult.val.shipping_type = sPICKUP

\* C18: every constructed AdContent has shipping_type PICKUP, SHIPPING or
\* BOTH; construction with any other value is rejected.
C18_ShippingTypeEnumerated ==
    (adResult # NoCall /\ adResult.ok) =>
        adResult.val.shipping_type \in {sPICKUP, sSHIPPING, sBOTH}

\* C19: every constructed AdContent has a non-empty category; construction
\* with category '' is rejected.
C19_CategoryNonEmpty ==
    (adResult # NoCall /\ adResult.ok) => adResult.val.category # <<>>

\* C20: ProductInfo construction fails for every negative suggested_price and
\* succeeds for an absent one and for every suggested_price >= 0, so every
\* ProductInfo has suggested_price absent or non-negative.
C20_NegativeSuggestedPriceRejected ==
    piResult # NoCall =>
        LET price == piArgs.suggested_price
        IN  /\ (price # None /\ price.val < 0) => ~piResult.ok
            /\ (price = None \/ price.val >= 0) => piResult.ok
            /\ piResult.ok =>
                   \/ piResult.val.suggested_price = None
                   \/ piResult.val.suggested_price.val >= 0

\* C20 witness: a construction with a negative suggested_price failed.
C20_Witness ==
    /\ piResult # NoCall
    /\ piArgs.suggested_price = Some(-1)
    /\ piResult = Raise("ValidationError")

\* C21: _find_images returns at most max_images paths, each of a supported
\* format, in lexicographic order of the file names over the whole result
\* (also when the folder mixes HEIC/HEIF files with other formats), and no
\* path twice.
C21_SelectionSortedByFilename ==
    (findResult # NoCall /\ findResult.ok) =>
        LET paths == findResult.val
        IN  /\ Len(paths) <= findArgs.max_images
            /\ \A i \in 1..Len(paths) :
                   Lower(PathSuffix(paths[i])) \in get_supported_formats
            /\ \A i, j \in 1..Len(paths) : i < j => StrLess(paths[i], paths[j])

\* the markers of the three classes, looked for in the lower-cased text
HasLikeNewMarker(text) ==
    \E m \in {w_like_new, w_wie_neu, w_excellent} : Contains(Lower(text), m)
HasDefectMarker(text) ==
    \E m \in {w_defect, w_broken, w_defekt, w_kaputt} : Contains(Lower(text), m)
HasNewMarker(text) == \E m \in {w_new, w_neu} : Contains(Lower(text), m)

\* C30: _normalize_condition returns Neu, Wie neu, Defekt or Gebraucht for
\* every input; a text with a like-new marker ('like new', 'wie neu',
\* 'excellent') yields 'Wie neu', a text with a defect marker yields
\* 'Defekt', a text with only a plain 'new'/'neu' marker yields 'Neu', and
\* everything else 'Gebraucht'.  (Texts with markers of two classes are left
\* open.)
C30_ConditionMarkersKeepTheirLabel ==
    condResult # NoCall =>
        LET text == condArgs
            label == condResult.val
        IN  /\ condResult.ok
            /\ label \in {lNeu, lWieNeu, lDefekt, sGebraucht}
            /\ (HasLikeNewMarker(text) /\ ~HasDefectMarker(text)) => label = lWieNeu
            /\ (HasDefectMarker(text) /\ ~HasLikeNewMarker(text)
                   /\ ~HasNewMarker(text)) => label = lDefekt
            /\ (HasNewMarker(text) /\ ~HasLikeNewMarker(text)
                   /\ ~HasDefectMarker(text)) => label = lNeu
            /\ (~HasNewMarker(text) /\ ~HasLikeNewMarker(text)
                   /\ ~HasDefectMarker(text)) => label = sGebraucht

\* the folder of the call has a file _is_supported_image accepts
HasSupportedImage(find) ==
    /\ find.folder # None
    /\ \E f \in find.folder.val.files : is_supported_image(f)

\* C22: a missing folder and a folder without supported images are each
\* reported to the caller of analyze_images as a ValueError before any
\* backend call; a folder with at least one supported image never produces
\* this error.
C22_NoImagesReportedBeforeBackend ==
    /\ (anPc = "done" /\ ~HasSupportedImage(anArgs.find)) =>
           (anResult = Raise("ValueError") /\ anCalls = 0 /\ anPaths = NoCall)
    /\ (anPc = "done" /\ HasSupportedImage(anArgs.find)) =>
           ~(anResult = Raise("ValueError") /\ anPaths = NoCall)

\* an image of the folder could not be converted, or a selected image could
\* not be opened or encoded
ImageErrorRaised ==
    \/ /\ anPaths # NoCall
       /\ anArgs.backend = "claude"
       /\ \E i \in 1..Len(anPaths.val) : anPaths.val[i] \in anArgs.unreadable
    \/ /\ anPaths # NoCall
       /\ anArgs.backend = "blip2"
       /\ anPaths.val[1] \in anArgs.unreadable
    \/ anArgs.find.failing # {}

\* C24: every error raised while converting, loading, encoding or analysing
\* an image reaches the caller of analyze_images: the call does not return a
\* ProductInfo.
C24_ImageErrorsReachCaller ==
    (anPc = "done" /\ ImageErrorRaised) => ~anResult.ok

\* C25: every ProductInfo a vision backend returns has brand, color and
\* category either None or a non-empty string.
C25_AbsentFieldsAreNone ==
    (anPc = "done" /\ anResult.ok) =>
        /\ anResult.val.brand # Some(<<>>)
        /\ anResult.val.color # Some(<<>>)
        /\ anResult.val.category # Some(<<>>)

\* the position in log of its first event e, 0 if there is none
FirstIndex(log, e) ==
    IF \E i \in 1..Len(log) : log[i] = e
    THEN CHOOSE i \in 1..Len(log) : log[i] = e /\ \A j \in 1..(i - 1) : log[j] # e
    ELSE 0

\* create_ad with the save going ahead iff goes_ahead: the draft button is the
\* only submitting action, clicked at most once, after the form was filled
\* and only if goes_ahead; a call that returns, returns True iff the save did
\* not go ahead, and then nothing was clicked
DraftSavedOnlyIf(goes_ahead) ==
    /\ Cardinality({i \in 1..Len(caLog) : caLog[i] = "click_draft"}) <= 1
    /\ \A i \in 1..Len(caLog) :
           caLog[i] \in {"navigate", "fill_fields", "set_input_files", "scroll",
                         "click_draft"}
    /\ FirstIndex(caLog, "click_draft") > 0 =>
           /\ goes_ahead
           /\ FirstIndex(caLog, "fill_fields") > 0
           /\ FirstIndex(caLog, "fill_fields") < FirstIndex(caLog, "click_draft")
    /\ (caPc = "done" /\ caResult.ok) =>
           /\ caResult.val = ~goes_ahead
           /\ caResult.val => FirstIndex(caLog, "click_draft") = 0
           /\ ~caResult.val => FirstIndex(caLog, "click_draft") > 0

\* C28 as stated: the draft button is clicked only after the form was filled
\* and only if auto_confirm is true or the user typed 'yes'; if the user
\* types anything else nothing is submitted and create_ad returns True,
\* otherwise False; the same for save_as_draft True and False.
C28_DraftSavedOnlyOnTypedYes ==
    caArgs # NoCall =>
        DraftSavedOnlyIf(caArgs.auto_confirm \/ caArgs.typed = Some(sYes))

\* C28 amended: the same with the typed answer compared after removing
\* surrounding whitespace and lower-casing it.
C28_DraftSavedOnlyOnConfirmation ==
    caArgs # NoCall =>
        DraftSavedOnlyIf(\/ caArgs.auto_confirm
                         \/ /\ caArgs.typed # None
                            /\ \E k \in 0..Len(caArgs.typed.val) :
                               \E n \in 0..Len(caArgs.typed.val) :
                                  LET core == SubSeq(caArgs.typed.val, k + 1, k + n)
                                  IN  /\ k + n <= Len(caArgs.typed.val)
                                      /\ Len(core) = 3
                                      /\ core[1] \in {"y", "Y"}
                                      /\ core[2] \in {"e", "E"}
                                      /\ core[3] \in {"s", "S"}
                                      /\ \A i \in (1..k) \cup
                                                  ((k + n + 1)..Len(caArgs.typed.val)) :
                                            caArgs.typed.val[i] \in {" ", "\t", "\n"})

\* C28 witness: without auto_confirm the user declined; the form was filled,
\* nothing was clicked and create_ad returned True.
C28_Witness ==
    /\ caArgs # NoCall
    /\ ~caArgs.auto_confirm
    /\ ~caArgs.save_as_draft
    /\ caArgs.typed = Some(<<"n", "o">>)
    /\ caPc = "done"
    /\ caResult = Ok(TRUE)
    /\ FirstIndex(caLog, "fill_fields") > 0
    /\ FirstIndex(caLog, "click_draft") = 0

\* the record handed to create_ad passed the validation of AdContent
PassedValidation(ad) ==
    /\ AdContent_title_field(ad.title)
    /\ AdContent_validate_title_length(ad.title)
    /\ AdContent_price_field(ad.price)
    /\ AdContent_validate_postal_code(ad.postal_code)

\* C23: in a run of main_async, if initialisation, image analysis, category
\* mapping or ad-content generation fails, no browser connection is
\* attempted, create_ad is never called and the run ends with exit status 1;
\* create_ad is called at most once per run and only with a record that
\* passed validation.
C23_FailedStageNeverReachesBrowser ==
    /\ (runFailed # None /\ runFailed.val \in {"initialisation", "analysis",
                                               "mapping", "generation"}) =>
           /\ runConnects = 0
           /\ runCreateAdCalls = 0
           /\ caArgs = NoCall
           /\ brState.playwright = "none"
           /\ runPc \in {"fatal", "exited"}
           /\ runPc = "exited" => runExit = Some(1)
    /\ runCreateAdCalls <= 1
    /\ caArgs # NoCall =>
           /\ runCreateAdCalls = 1
           /\ runAd # None
           /\ caArgs.ad_content = runAd.val
           /\ PassedValidation(caArgs.ad_content)
    /\ runPc = "returned" => runFailed = None /\ runExit = None

\* C23 witness: component initialisation failed; the run ended with exit
\* status 1 without a browser connection and without a create_ad call.
C23_Witness ==
    /\ runArgs # NoCall
    /\ runFailed = Some("initialisation")
    /\ runCreateAdCalls = 0
    /\ runPc = "exited"
    /\ runExit = Some(1)
    /\ runConnects = 0

NonHeicPositions(image_paths) ==
    {i \in 1..Len(image_paths) :
        Lower(PathSuffix(image_paths[i])) \notin {xHeic, xHeif}}

\* the k-th of these positions in increasing order
NthNonHeic(image_paths, k) ==
    CHOOSE i \in NonHeicPositions(image_paths) :
        Cardinality({j \in NonHeicPositions(image_paths) : j <= i}) = k

\* C27: what upload_images hands to the file input is exactly the entries of
\* image_paths whose suffix is not .heic/.heif, in the same relative order,
\* in a single set_input_files call; main_async passes
\* product_info.image_paths to create_ad as they are.
C27_UploadKeepsOrderInOneCall ==
    caArgs # NoCall =>
        /\ runProductInfo # None
        /\ caArgs.image_paths = runProductInfo.val.image_paths
        /\ caArgs.image_paths = runArgs.analysis.val.image_paths
        /\ Len(caUploads) <= 1
        /\ Len(caUploads) = Cardinality({i \in 1..Len(caLog) :
                                            caLog[i] = "set_input_files"})
        /\ \A c \in 1..Len(caUploads) :
              /\ Len(caUploads[c]) =
                     Cardinality(NonHeicPositions(caArgs.image_paths))
              /\ Len(caUploads[c]) > 0
              /\ \A k \in 1..Len(caUploads[c]) :
                    caUploads[c][k] =
                        Resolve(caArgs.image_paths[NthNonHeic(caArgs.image_paths, k)])
        /\ (caPc \in {"filled", "scrolled", "confirmed"}
            \/ (caPc = "done" /\ caResult.ok)) =>
               (Len(caUploads) = 1 <=> NonHeicPositions(caArgs.image_paths) # {})

\* C27 witness: image_paths was c.jpg, b.HEIC, a.jpg; one set_input_files
\* call received c.jpg and a.jpg, in this order.
C27_Witness ==
    /\ caArgs # NoCall
    /\ caArgs.image_paths = <<fCJpg, fBHEIC, fAJpg>>
    /\ caUploads = <<(<<Resolve(fCJpg), Resolve(fAJpg)>>)>>
    /\ caPc = "done"
    /\ caResult.ok

\* selector and word are equal up to the case of their letters
SameIgnoringCase(selector, word) ==
    /\ Len(selector) = Len(word)
    /\ \A i \in 1..Len(word) : selector[i] \in {word[i], UpperChar(word[i])}

\* C26: ContentGenerator construction accepts exactly the selectors simple,
\* claude, gemini, openai, compared case-insensitively: 'simple' always
\* succeeds, without a client and whatever api_key is; an API backend raises
\* ValueError when api_key is absent or empty and is constructed otherwise;
\* every other selector raises ValueError; no generator has a backend other
\* than the four.
C26_ConstructionAcceptsFourBackends ==
    cgResult # NoCall =>
        /\ SameIgnoringCase(cgArgs.backend, sSimple) =>
               cgResult.ok /\ cgResult.val.client = None
        /\ \A api \in {sClaude, sGemini, sOpenai} :
               SameIgnoringCase(cgArgs.backend, api) =>
                   IF cgArgs.api_key = None \/ cgArgs.api_key = Some(<<>>)
                   THEN cgResult = Raise("ValueError")
                   ELSE cgResult.ok /\ cgResult.val.client # None
        /\ (\A word \in {sSimple, sClaude, sGemini, sOpenai} :
               ~SameIgnoringCase(cgArgs.backend, word)) =>
               cgResult = Raise("ValueError")
        /\ cgResult.ok =>
               cgResult.val.backend \in {sSimple, sClaude, sGemini, sOpenai}

\* C26 witness: the selector 'OpenAI' with an empty api_key was refused with
\* ValueError.
C26_Witness ==
    /\ cgArgs # NoCall
    /\ cgArgs.backend = <<"O", "p", "e", "n", "A", "I">>
    /\ cgArgs.api_key = Some(<<>>)
    /\ cgResult = Raise("ValueError")

=============================================================================
